---- MODULE Spec2Model ----
(***************************************************************************)
(* Telemetry aggregation engine of SpawnKit v2 (electron/data-provider.js). *)
(*                                                                         *)
(*   Spec          the TTL cache and refresh orchestrator: the accessors,  *)
(*                 getAll and invalidateCache of OpenClawDataProvider,     *)
(*                 interleaved at their await points, over a disk that     *)
(*                 another process rewrites                                *)
(*   SpecStale     getMetrics over the cached sessions and crons, the      *)
(*                 clock passing the end of a TTL                          *)
(*   SpecTail      the bounded tail reader, readLastLines                  *)
(*   SpecSessions  one cache-miss read of getSessions, pass by pass        *)
(*   SpecMain      the main stream pass of getSessions, over long listings *)
(*   SpecCrons     the records getCrons makes of the jobs                  *)
(*   SpecUptime    the uptime block of getMetrics                          *)
(*   SpecLabel     labelToAgent                                            *)
(*   SpecRoot      detectOpenClawRoot and detectWorkspace                  *)
(*   SpecParse     _parseSessionTail                                       *)
(*   SpecDaily     the daily notes of getMemory                            *)
(***************************************************************************)
EXTENDS Integers, Sequences, FiniteSets, TLC

VARIABLES
    tFile,       \* the file on disk: its '\n'-separated segments, in order
    tLineCount,  \* the lineCount argument
    tFault,      \* which fs call fails, if any
    tPc,         \* "call" before readLastLines runs, "done" after
    tResult,     \* the array readLastLines returned
    tReads,      \* the reads issued on the file, in order
    sNow,        \* Date.now() during the getSessions read
    sRuns,       \* subagents/runs.json: the run registry, in Object.entries order
    sPc,         \* where the getSessions read stands
    sIdx,        \* index of the next item of the pass that is running
    sMain,       \* agents/main/sessions: absent, or its session files, newest mtime first
    sDirs,       \* agents/<dir>/sessions of the fleet agents: the newest file of each
    kira,        \* the kira object of the main stream pass
    agentData,   \* agentData: agent id -> record
    subagentList,\* subagentList
    sResult,     \* the value getSessions returned
    openclawRoot,    \* this.openclawRoot: "none" (null) or "root"
    workspace,       \* this.workspace: "none" (null) or "ws"
    cache,           \* this._cache: key -> stored value
    cacheTimestamps, \* this._cacheTimestamps: key -> Date.now() of the store, 0 if undefined
    dateNow,         \* Date.now()
    disk,            \* the files of the agent runtime, owned by another process
    calls,           \* the getMetrics() and getAll() calls, each at its await point
    opSeq,           \* how many provider calls have started
    written,         \* key -> when it was last stored, and whether nothing invalidated it since
    lastStep,        \* the latest provider step: its name, its cache lookups, the call it ended
    cronJobs,    \* cron/jobs.json: data.jobs
    cronPc,      \* how many getCrons() reads of the file were made
    cronReads,   \* what each read returned, in order
    upDir,       \* agents/main/sessions as getMetrics finds it: absent, or its file names
    upPc,        \* "call" before the uptime block of getMetrics runs, "done" after
    upResult,    \* the uptime it computed, or the exception
    lbLabel,     \* the label given to labelToAgent
    lbPc,        \* "call" before labelToAgent runs, "done" after
    lbResult,    \* what labelToAgent returned
    fnArgs,      \* what a function that keeps no state is called on
    fnPc,        \* "start" before that function runs, "done" after
    fnResult     \* what it returned

tailVars == <<tFile, tLineCount, tFault, tPc, tResult, tReads>>

sessVars == <<sNow, sRuns, sPc, sIdx, sMain, sDirs, kira, agentData, subagentList, sResult>>

provVars == <<openclawRoot, workspace, cache, cacheTimestamps, dateNow, disk, calls,
              opSeq, written, lastStep>>

cronVars == <<cronJobs, cronPc, cronReads>>

upVars == <<upDir, upPc, upResult>>

labelVars == <<lbLabel, lbPc, lbResult>>

fnVars == <<fnArgs, fnPc, fnResult>>

vars == <<tFile, tLineCount, tFault, tPc, tResult, tReads,
          sNow, sRuns, sPc, sIdx, sMain, sDirs, kira, agentData, subagentList, sResult,
          openclawRoot, workspace, cache, cacheTimestamps, dateNow, disk, calls,
          opSeq, written, lastStep,
          cronJobs, cronPc, cronReads, upDir, upPc, upResult, lbLabel, lbPc, lbResult,
          fnArgs, fnPc, fnResult>>

notTail == <<sessVars, provVars, cronVars, upVars, labelVars, fnVars>>

notSess == <<tailVars, provVars, cronVars, upVars, labelVars, fnVars>>

notProv == <<tailVars, sessVars, cronVars, upVars, labelVars, fnVars>>

notCron == <<tailVars, sessVars, provVars, upVars, labelVars, fnVars>>

notUp == <<tailVars, sessVars, provVars, cronVars, labelVars, fnVars>>

notLabel == <<tailVars, sessVars, provVars, cronVars, upVars, fnVars>>

notFn == <<tailVars, sessVars, provVars, cronVars, upVars, labelVars>>

\* a sub-model that is not running
TailOff ==
    /\ tFile = <<>> /\ tLineCount = 0 /\ tFault = "none"
    /\ tPc = "off" /\ tResult = <<>> /\ tReads = <<>>

SessOff ==
    /\ sNow = 0 /\ sRuns = <<>> /\ sPc = "off" /\ sIdx = 0
    /\ sMain = <<>> /\ sDirs = <<>> /\ kira = <<>>
    /\ agentData = <<>> /\ subagentList = <<>> /\ sResult = <<>>

ProvOff ==
    /\ openclawRoot = "none" /\ workspace = "none"
    /\ cache = <<>> /\ cacheTimestamps = <<>> /\ dateNow = 0 /\ disk = <<>>
    /\ calls = <<>> /\ opSeq = 0 /\ written = <<>> /\ lastStep = <<>>

CronOff == cronJobs = <<>> /\ cronPc = 0 /\ cronReads = <<>>

UpOff == upDir = <<>> /\ upPc = "off" /\ upResult = <<>>

LabelOff == lbLabel = <<>> /\ lbPc = "off" /\ lbResult = <<>>

FnOff == fnArgs = <<>> /\ fnPc = "off" /\ fnResult = <<>>

Min(a, b) == IF a < b THEN a ELSE b

Max(a, b) == IF a < b THEN b ELSE a

(***************************************************************************)
(* Bounded Tail Reader                                                     *)
(*                                                                         *)
(* A file is the sequence of its segments, the pieces between '\n' bytes   *)
(* (so content.split('\n') is exactly the segments, and a file ending in   *)
(* '\n' ends with a segment of length 0).  A segment is [len, tw]: len     *)
(* bytes of which the last tw are whitespace; it is blank (trim() is '')   *)
(* iff tw = len.                                                           *)
(***************************************************************************)
MaxSegs == 3

MaxLines == 3

SmallFileLimit == 512000

BytesPerLine == 2000

Segments ==
    { [len |-> 0, tw |-> 0],            \* ''
      [len |-> 2, tw |-> 2],            \* '  '
      [len |-> 3, tw |-> 0],            \* 'abc'
      [len |-> 3, tw |-> 1],            \* 'ab '
      [len |-> 1999, tw |-> 0],
      [len |-> 2001, tw |-> 2],
      [len |-> 511994, tw |-> 0],
      [len |-> 600000, tw |-> 3] }

Files == UNION { [1..n -> Segments] : n \in 1..MaxSegs }

LineCounts == (0..MaxLines) \cup {50, 100, 256, 300}

Faults == {"none", "stat", "read"}

RECURSIVE SumLen(_)
SumLen(f) == IF f = <<>> THEN 0 ELSE Head(f).len + SumLen(Tail(f))

\* stat.size: the bytes of the segments and of the '\n' between them
FileSize(f) == SumLen(f) + (Len(f) - 1)

\* byte offset of segment i
RECURSIVE SegStart(_, _)
SegStart(f, i) == IF i = 1 THEN 0 ELSE SegStart(f, i - 1) + f[i - 1].len + 1

\* buffer.toString().split('\n') of the bytes [pos, size): segment i is in
\* the window iff its end (where its '\n' sits, or the end of file) is
\* at or after pos; a segment starting before pos is cut (a partial line).
SplitWindow(f, pos) ==
    LET In(i) == SegStart(f, i) + f[i].len >= pos
        Piece(i) ==
            LET n == (SegStart(f, i) + f[i].len) - Max(SegStart(f, i), pos)
            IN  [line |-> i, len |-> n, tw |-> Min(f[i].tw, n),
                 partial |-> SegStart(f, i) < pos]
        first == CHOOSE i \in 1..Len(f) : In(i) /\ \A j \in 1..(i - 1) : ~In(j)
    IN  [k \in 1..(Len(f) - first + 1) |-> Piece(first + k - 1)]

\* l => l.trim()  (truthy iff the line is not blank)
NotBlank(p) == p.tw < p.len

\* Array.prototype.filter
RECURSIVE Filter(_)
Filter(s) ==
    IF s = <<>> THEN <<>>
    ELSE IF NotBlank(Head(s)) THEN <<Head(s)>> \o Filter(Tail(s))
    ELSE Filter(Tail(s))

\* Array.prototype.slice(start): a negative start counts from the end,
\* and -0 is 0
SliceFrom(s, start) ==
    LET from == IF start < 0 THEN Max(Len(s) + start, 0) ELSE Min(start, Len(s))
    IN  SubSeq(s, from + 1, Len(s))

\* lines.slice(-lineCount)
LastLines(lines, lineCount) == SliceFrom(lines, 0 - lineCount)

\* the window length without the clamp to the file size
ChunkSizeUnclamped(size, lineCount) == lineCount * BytesPerLine

\* Math.min(stat.size, lineCount * 2000)
ChunkSize(size, lineCount) == Min(size, lineCount * BytesPerLine)

\* position argument of fs.readSync
ReadPosition(size, lineCount) == size - ChunkSize(size, lineCount)

InitTail ==
    /\ SessOff /\ ProvOff /\ CronOff /\ UpOff /\ LabelOff /\ FnOff
    /\ tFile \in Files
    /\ tLineCount \in LineCounts
    /\ tFault \in Faults
    /\ tPc = "call"
    /\ tResult = <<>>
    /\ tReads = <<>>

\* fs.statSync throws: catch (e) { return [] }
TailStatFails ==
    /\ tPc = "call" /\ tFault = "stat"
    /\ tPc' = "done" /\ tResult' = <<>> /\ tReads' = <<>>
    /\ UNCHANGED <<tFile, tLineCount, tFault>>
    /\ UNCHANGED notTail

\* if (stat.size === 0) return []
TailEmptyFile ==
    /\ tPc = "call" /\ tFault # "stat"
    /\ FileSize(tFile) = 0
    /\ tPc' = "done" /\ tResult' = <<>> /\ tReads' = <<>>
    /\ UNCHANGED <<tFile, tLineCount, tFault>>
    /\ UNCHANGED notTail

\* if (stat.size < 512000): readFileSync, split, filter, slice
TailSmallFile ==
    /\ tPc = "call" /\ tFault # "stat"
    /\ FileSize(tFile) # 0 /\ FileSize(tFile) < SmallFileLimit
    /\ tPc' = "done"
    /\ IF tFault = "read"
       THEN tResult' = <<>> /\ tReads' = <<>>
       ELSE /\ tReads' = <<[whole |-> TRUE, pos |-> 0, len |-> FileSize(tFile)]>>
            /\ tResult' = LastLines(Filter(SplitWindow(tFile, 0)), tLineCount)
    /\ UNCHANGED <<tFile, tLineCount, tFault>>
    /\ UNCHANGED notTail

\* otherwise: one readSync of chunkSize bytes at stat.size - chunkSize
TailLargeFile ==
    /\ tPc = "call" /\ tFault # "stat"
    /\ FileSize(tFile) >= SmallFileLimit
    /\ tPc' = "done"
    /\ IF tFault = "read"
       THEN tResult' = <<>> /\ tReads' = <<>>
       ELSE LET size == FileSize(tFile)
                pos == ReadPosition(size, tLineCount)
            IN  /\ tReads' = <<[whole |-> FALSE, pos |-> pos,
                                len |-> ChunkSize(size, tLineCount)]>>
                /\ tResult' = LastLines(Filter(SplitWindow(tFile, pos)), tLineCount)
    /\ UNCHANGED <<tFile, tLineCount, tFault>>
    /\ UNCHANGED notTail

readLastLines == TailStatFails \/ TailEmptyFile \/ TailSmallFile \/ TailLargeFile

NextTail == readLastLines

SpecTail == InitTail /\ [][NextTail]_vars


(***************************************************************************)
(* Identity Resolver                                                       *)
(*                                                                         *)
(* A label is the sequence of its characters.  A timestamp is a number of  *)
(* milliseconds; 0 stands for a missing one (null, undefined, 0: all falsy *)
(* in the code).  ISO strings of valid dates compare as their instants do. *)
(***************************************************************************)
Undefined == "undefined"

AgentOrder == <<"kira", "hunter", "forge", "echo", "atlas", "sentinel">>

\* AGENT_MAP: key -> {id, name, role}
AGENT_MAP ==
    (<<>> :> [id |-> "kira", name |-> "ApoMac", role |-> "CEO"])
    @@ (<<"h", "u", "n", "t", "e", "r">> :> [id |-> "hunter", name |-> "Hunter", role |-> "CRO"])
    @@ (<<"f", "o", "r", "g", "e">> :> [id |-> "forge", name |-> "Forge", role |-> "CTO"])
    @@ (<<"e", "c", "h", "o">> :> [id |-> "echo", name |-> "Echo", role |-> "CMO"])
    @@ (<<"a", "t", "l", "a", "s">> :> [id |-> "atlas", name |-> "Atlas", role |-> "COO"])
    @@ (<<"s", "e", "n", "t", "i", "n", "e", "l">> :> [id |-> "sentinel", name |-> "Sentinel", role |-> "CCO"])

\* keys every object literal inherits from Object.prototype and that are
\* their own lower case: AGENT_MAP[key] is a truthy object without an id
InheritedKeys ==
    { <<"c", "o", "n", "s", "t", "r", "u", "c", "t", "o", "r">>,
      <<"_", "_", "p", "r", "o", "t", "o", "_", "_">> }

\* String.prototype.toLowerCase, on the characters the labels use
LowerChar(c) ==
    CASE c = "A" -> "a"
      [] c = "B" -> "b"
      [] c = "C" -> "c"
      [] c = "F" -> "f"
      [] c = "G" -> "g"
      [] c = "H" -> "h"
      [] c = "K" -> "k"
      [] c = "P" -> "p"
      [] c = "U" -> "u"
      [] c = "X" -> "x"
      [] OTHER -> c

ToLowerCase(str) == [i \in 1..Len(str) |-> LowerChar(str[i])]

\* label.split('-')[0]
RECURSIVE BeforeDash(_)
BeforeDash(str) ==
    IF str = <<>> \/ Head(str) = "-" THEN <<>>
    ELSE <<Head(str)>> \o BeforeDash(Tail(str))

NullInfo == [kind |-> "null", id |-> Undefined, name |-> Undefined, role |-> Undefined]

InheritedInfo == [kind |-> "inherited", id |-> Undefined, name |-> Undefined, role |-> Undefined]

InfoOf(key) ==
    [kind |-> "agent", id |-> AGENT_MAP[key].id, name |-> AGENT_MAP[key].name,
     role |-> AGENT_MAP[key].role]

labelToAgent(label) ==
    IF label = <<>> THEN InfoOf(<<>>)
    ELSE LET prefix == ToLowerCase(BeforeDash(label))
         IN  IF prefix \in DOMAIN AGENT_MAP THEN InfoOf(prefix)
             ELSE IF prefix \in InheritedKeys THEN InheritedInfo
             ELSE NullInfo

\* inferStatus(lastTimestamp), at Date.now() = now
inferStatus(lastTimestamp, now) ==
    IF lastTimestamp = 0 THEN "offline"
    ELSE IF (now - lastTimestamp) < 5 * 60000 THEN "active"
    ELSE IF (now - lastTimestamp) < 30 * 60000 THEN "idle"
    ELSE "offline"

\* relativeTime(timestamp), at Date.now() = now
relativeTime(timestamp, now) ==
    LET diffMs == now - timestamp
        seconds == diffMs \div 1000
        minutes == seconds \div 60
        hours == minutes \div 60
        days == hours \div 24
    IN  IF timestamp = 0 THEN [n |-> 0, unit |-> "unknown"]
        ELSE IF diffMs < 0 THEN [n |-> 0, unit |-> "just now"]
        ELSE IF seconds < 60 THEN [n |-> seconds, unit |-> "s ago"]
        ELSE IF minutes < 60 THEN [n |-> minutes, unit |-> "m ago"]
        ELSE IF hours < 24 THEN [n |-> hours, unit |-> "h ago"]
        ELSE [n |-> days, unit |-> "d ago"]

(***************************************************************************)
(* getSessions, run-registry pass                                          *)
(***************************************************************************)
MaxRuns == 2

MaxSubagents == 20

MaxEvents == 10

\* run.outcome: absent (or null), or an object with or without a status
NoOutcome == [present |-> FALSE, status |-> Undefined]

Outcomes ==
    { NoOutcome,
      [present |-> TRUE, status |-> "ok"],
      [present |-> TRUE, status |-> "error"],
      [present |-> TRUE, status |-> Undefined] }

\* the entries a registry may hold; kind "null" is a null entry and kind
\* "badtask" an entry whose task is not a string
RunsAt(now) ==
    { [kind |-> "ok", label |-> l, outcome |-> o, taskLen |-> 100,
       createdAt |-> now - 2000000, endedAt |-> e] :
        l \in { <<>>, <<"h", "u", "n", "t", "e", "r", "-", "1">>, <<"F", "o", "r", "g", "e">> },
        o \in Outcomes,
        e \in {0, now - 100000} }
    \cup
    { [kind |-> "ok", label |-> <<"h", "u", "n", "t", "e", "r", "-", "1">>,
       outcome |-> [present |-> TRUE, status |-> "ok"], taskLen |-> 0,
       createdAt |-> 0, endedAt |-> now - 1000000],
      [kind |-> "ok", label |-> <<"F", "o", "r", "g", "e">>,
       outcome |-> [present |-> TRUE, status |-> "error"], taskLen |-> 0,
       createdAt |-> 0, endedAt |-> 0],
      [kind |-> "ok", label |-> <<"-", "x">>,
       outcome |-> NoOutcome, taskLen |-> 200,
       createdAt |-> now + 50000, endedAt |-> 0],
      [kind |-> "ok", label |-> <<"m", "i", "s", "c">>,
       outcome |-> [present |-> TRUE, status |-> "ok"], taskLen |-> 100,
       createdAt |-> now - 2000000, endedAt |-> now - 1000000],
      [kind |-> "ok", label |-> <<"c", "o", "n", "s", "t", "r", "u", "c", "t", "o", "r">>,
       outcome |-> NoOutcome, taskLen |-> 100,
       createdAt |-> now - 100000, endedAt |-> 0],
      [kind |-> "ok", label |-> <<"h", "u", "n", "t", "e", "r", "-", "1">>,
       outcome |-> NoOutcome, taskLen |-> 100,
       createdAt |-> now - 2000000, endedAt |-> now - 2000000] }
    \cup
    { [kind |-> k, label |-> <<>>, outcome |-> NoOutcome, taskLen |-> 0,
       createdAt |-> 0, endedAt |-> 0] : k \in {"null", "badtask"} }

Registries(now) == UNION { [1..n -> RunsAt(now)] : n \in 0..MaxRuns }

NoAgent == [present |-> FALSE]

AgentKeys == {AgentOrder[i] : i \in 1..Len(AgentOrder)} \cup {Undefined}

\* const isRunning = !run.outcome
IsRunning(run) == ~run.outcome.present

\* any outcome at all taken for a success
OutcomeOkAnyPresent(run) == run.outcome.present

\* run.outcome?.status === 'ok'
OutcomeOk(run) == run.outcome.present /\ run.outcome.status = "ok"

\* const status = isRunning ? 'running' : (... === 'ok' ? 'completed' : 'error')
RunStatus(run) ==
    IF IsRunning(run) THEN "running"
    ELSE IF OutcomeOk(run) THEN "completed"
    ELSE "error"

\* progress: status === 'running' ? 0.5 : (status === 'completed' ? 1.0 : 0),
\* as a fraction num/den
RunProgress(status) ==
    IF status = "running" THEN [num |-> 1, den |-> 2]
    ELSE IF status = "completed" THEN [num |-> 1, den |-> 1]
    ELSE [num |-> 0, den |-> 1]

\* endTime || (isRunning ? new Date().toISOString() : startTime)
RunLastSeen(run, now) ==
    IF run.endedAt # 0 THEN run.endedAt
    ELSE IF IsRunning(run) THEN now
    ELSE run.createdAt

\* the AgentRecord the pass writes for the run's owner
RunAgentRecord(run, info, existing, now) ==
    [present |-> TRUE,
     id |-> info.id, name |-> info.name, role |-> info.role,
     status |-> IF IsRunning(run) THEN "active"
                ELSE IF RunStatus(run) = "completed" THEN "idle"
                ELSE inferStatus(RunLastSeen(run, now), now),
     currentTask |-> [text |-> IF IsRunning(run) THEN "" ELSE "Completed: ",
                      label |-> run.label],
     lastSeen |-> RunLastSeen(run, now),
     lastSeenRelative |-> relativeTime(RunLastSeen(run, now), now),
     sessionId |-> "childSessionKey",
     modelUsed |-> "claude-sonnet-4-20250514",
     tokensUsed |-> IF existing.present THEN existing.tokensUsed ELSE 0,
     apiCalls |-> IF existing.present THEN existing.apiCalls ELSE 0,
     label |-> run.label]

\* a test that lets every run of another identity than the lead overwrite
RunWritesWhateverItsAge(run, info, existing, now) ==
    info.kind # "null" /\ info.id # "kira" /\ run.label # <<>>

\* if (agentInfo && agentInfo.id !== 'kira' && label) and the newest-wins test
RunWrites(run, info, existing, now) ==
    /\ info.kind # "null" /\ info.id # "kira" /\ run.label # <<>>
    /\ \/ ~existing.present
       \/ IsRunning(run)
       \/ /\ RunLastSeen(run, now) # 0
          /\ (existing.lastSeen = 0 \/ RunLastSeen(run, now) > existing.lastSeen)

\* the entry pushed on subagentList for the run with key number idx
SubagentEntry(idx, run, now) ==
    [id |-> idx,
     name |-> IF run.label # <<>> THEN [run |-> 0, label |-> run.label]
              ELSE [run |-> idx, label |-> <<>>],
     parentAgent |-> IF labelToAgent(run.label).id # Undefined
                     THEN labelToAgent(run.label).id ELSE "kira",
     task |-> IF run.label # <<>> THEN [len |-> Len(run.label), label |-> run.label]
              ELSE [len |-> Min(Min(run.taskLen, 120), 80), label |-> <<>>],
     status |-> RunStatus(run),
     progress |-> RunProgress(RunStatus(run)),
     startTime |-> run.createdAt,
     endTime |-> run.endedAt,
     sessionId |-> "childSessionKey",
     tokensUsed |-> 0,
     label |-> run.label,
     durationMs |-> IF run.outcome.present THEN run.endedAt - run.createdAt
                    ELSE now - (IF run.createdAt # 0 THEN run.createdAt ELSE now)]

EmptySessions == [agents |-> <<>>, subagents |-> <<>>, events |-> <<>>]

\* the default record of an identity no pass observed
DefaultAgent(id) ==
    LET key == CHOOSE k \in DOMAIN AGENT_MAP : AGENT_MAP[k].id = id
    IN  [present |-> TRUE,
         id |-> id, name |-> AGENT_MAP[key].name, role |-> AGENT_MAP[key].role,
         status |-> "offline",
         currentTask |-> [text |-> "No recent activity", label |-> <<>>],
         lastSeen |-> 0,
         lastSeenRelative |-> [n |-> 0, unit |-> "never"],
         sessionId |-> "",
         modelUsed |-> "",
         tokensUsed |-> 0,
         apiCalls |-> 0,
         label |-> <<>>]

\* Array.prototype.slice(0, n)
Take(s, n) == SubSeq(s, 1, Min(n, Len(s)))

\* agentOrder.map(id => agentData[id] || default)
AssembleAgents(data) ==
    [i \in 1..Len(AgentOrder) |->
        IF data[AgentOrder[i]].present THEN data[AgentOrder[i]]
        ELSE DefaultAgent(AgentOrder[i])]

\* the events of the active agents, then of the running subagents
SessionEvents(agents, subs) ==
    LET active == SelectSeq(agents, LAMBDA a : a.status = "active")
        running == SelectSeq(subs, LAMBDA x : x.status = "running")
    IN  [i \in 1..Len(active) |->
            [type |-> "agent:status", timestamp |-> active[i].lastSeen,
             agentId |-> active[i].id, subagentId |-> 0]]
        \o
        [i \in 1..Len(running) |->
            [type |-> "subagent:spawn", timestamp |-> running[i].startTime,
             agentId |-> running[i].parentAgent, subagentId |-> running[i].id]]

\* a session file as the passes see it: the type of its header line (its
\* first line), and what _parseSessionTail(path, 50) makes of its tail
SessionFile(header, ts, task, model, tin, tout, nCalls) ==
    [header |-> header, lastTimestamp |-> ts, lastTask |-> task, modelUsed |-> model,
     totalTokensIn |-> tin, totalTokensOut |-> tout, apiCalls |-> nCalls]

\* the session files the directories may hold
SessionFilesAt(now) ==
    { SessionFile("session", now - 1000000, "task A", "model-a", 7, 3, 1),
      SessionFile("session", now - 100000, "task B", "", 15, 5, 2),
      SessionFile("session", 0, "task C", "model-c", 4, 1, 1),
      SessionFile("session", 0, "", "", 0, 0, 0),
      SessionFile("session", now - 1000000, "task D", "model-d", 1, 1, 1),
      SessionFile("other", now - 50000, "task E", "model-e", 30, 10, 3) }

\* process the 15 most recent sessions: files.slice(0, 15)
MaxMainFiles == 15

MaxShortListing == 2

\* agents/main/sessions: absent, there but no directory, or a directory
\* with its .jsonl files sorted by mtime, newest first
NoMainDir == [state |-> "absent", files |-> <<>>]

MainDir(files) == [state |-> "dir", files |-> files]

\* listings of a few files
ShortListings(now) ==
    { MainDir(f) : f \in UNION { [1..n -> SessionFilesAt(now)] : n \in 0..MaxShortListing } }

\* listings that reach and pass the cap: one file repeated, then another
LongListings(now) ==
    { MainDir([i \in 1..n |-> IF i < n THEN f ELSE g]) :
        n \in MaxMainFiles..(MaxMainFiles + 2),
        f \in SessionFilesAt(now), g \in SessionFilesAt(now) }

MainListings(now) ==
    {NoMainDir, [state |-> "notdir", files |-> <<>>]}
        \cup ShortListings(now) \cup LongListings(now)

\* const kira = { ...AGENT_MAP[''], tokensUsed: 0, apiCalls: 0 }
KiraInit ==
    [present |-> TRUE,
     id |-> "kira", name |-> AGENT_MAP[<<>>].name, role |-> AGENT_MAP[<<>>].role,
     status |-> Undefined,
     currentTask |-> [text |-> Undefined, label |-> <<>>],
     lastSeen |-> 0,
     lastSeenRelative |-> [n |-> 0, unit |-> Undefined],
     sessionId |-> Undefined,
     modelUsed |-> Undefined,
     tokensUsed |-> 0,
     apiCalls |-> 0,
     label |-> <<>>]

\* if (!kira.lastSeen || (parsed.lastTimestamp && parsed.lastTimestamp > kira.lastSeen))
MainReplaces(k, parsed) ==
    k.lastSeen = 0 \/ (parsed.lastTimestamp # 0 /\ parsed.lastTimestamp > k.lastSeen)

\* the body of the loop of the main stream pass for a file with a session header
MainFold(k, parsed, now) ==
    LET r == IF MainReplaces(k, parsed)
             THEN [k EXCEPT
                     !.status = inferStatus(parsed.lastTimestamp, now),
                     !.currentTask = [text |-> IF parsed.lastTask # "" THEN parsed.lastTask
                                               ELSE "Main session",
                                      label |-> <<>>],
                     !.lastSeen = parsed.lastTimestamp,
                     !.lastSeenRelative = relativeTime(parsed.lastTimestamp, now),
                     !.sessionId = "agent:main:main",
                     !.modelUsed = IF parsed.modelUsed # "" THEN parsed.modelUsed
                                   ELSE "claude-opus-4-6"]
             ELSE k
    IN  [r EXCEPT !.tokensUsed = @ + parsed.totalTokensIn + parsed.totalTokensOut,
                  !.apiCalls = @ + parsed.apiCalls]

\* agentDirMap, in Object.entries order, without the entry mapped to null
AgentDirs == <<[dir |-> "hunter", id |-> "hunter"],
               [dir |-> "cto-forge", id |-> "forge"],
               [dir |-> "sentinel", id |-> "sentinel"]>>

\* agents/<dir>/sessions holds no .jsonl file, or is not there
NoFile == [present |-> FALSE, file |-> SessionFile("none", 0, "", "", 0, 0, 0)]

NewestFile(f) == [present |-> TRUE, file |-> f]

\* the newest file of each of the three directories
DirStatesAt(now) ==
    { [d \in 1..Len(AgentDirs) |-> IF d = 1 THEN h ELSE IF d = 2 THEN c ELSE NoFile] :
        h \in { NoFile,
                NewestFile(SessionFile("session", now - 2000000, "task H", "model-h", 60, 40, 4)),
                NewestFile(SessionFile("session", now - 50000, "", "", 20, 10, 2)) },
        c \in { NoFile,
                NewestFile(SessionFile("session", 0, "task F", "", 8, 2, 1)) } }

NoDirs == [d \in 1..Len(AgentDirs) |-> NoFile]

\* if (!existing || (parsed.lastTimestamp && (!existing.lastSeen ||
\*     parsed.lastTimestamp > existing.lastSeen)))
DirWrites(existing, parsed) ==
    \/ ~existing.present
    \/ /\ parsed.lastTimestamp # 0
       /\ (existing.lastSeen = 0 \/ parsed.lastTimestamp > existing.lastSeen)

\* the record the directory pass writes
DirAgentRecord(d, existing, parsed, now) ==
    LET key == CHOOSE k \in DOMAIN AGENT_MAP : AGENT_MAP[k].id = AgentDirs[d].id
    IN  [present |-> TRUE,
         id |-> IF existing.present THEN existing.id ELSE AGENT_MAP[key].id,
         name |-> IF existing.present THEN existing.name ELSE AGENT_MAP[key].name,
         role |-> IF existing.present THEN existing.role ELSE AGENT_MAP[key].role,
         status |-> inferStatus(parsed.lastTimestamp, now),
         currentTask |-> IF parsed.lastTask # "" THEN [text |-> parsed.lastTask, label |-> <<>>]
                         ELSE IF existing.present THEN existing.currentTask
                         ELSE [text |-> "Standby", label |-> <<>>],
         lastSeen |-> IF parsed.lastTimestamp # 0 THEN parsed.lastTimestamp
                      ELSE IF existing.present THEN existing.lastSeen ELSE 0,
         lastSeenRelative |-> relativeTime(parsed.lastTimestamp, now),
         sessionId |-> IF existing.present THEN existing.sessionId ELSE AgentDirs[d].dir,
         modelUsed |-> IF parsed.modelUsed # "" THEN parsed.modelUsed
                       ELSE IF existing.present THEN existing.modelUsed ELSE "",
         tokensUsed |-> (IF existing.present THEN existing.tokensUsed ELSE 0)
                            + parsed.totalTokensIn + parsed.totalTokensOut,
         apiCalls |-> (IF existing.present THEN existing.apiCalls ELSE 0) + parsed.apiCalls,
         label |-> IF existing.present THEN existing.label ELSE <<>>]

\* registries that reach and pass the cap of the subagents list
LongRegistries(now) ==
    LET pool == { r \in RunsAt(now) :
                    /\ r.kind = "ok" /\ r.endedAt = 0 /\ r.createdAt = now - 2000000
                    /\ r.label \in { <<>>, <<"h", "u", "n", "t", "e", "r", "-", "1">> }
                    /\ r.outcome \in { NoOutcome, [present |-> TRUE, status |-> "ok"] } }
    IN  { [i \in 1..n |-> IF i < n THEN f ELSE g] :
            n \in MaxSubagents..(MaxSubagents + 2), f \in pool, g \in pool }

\* what a read finds on the disk: the main sessions directory, the run
\* registry, the directories of the fleet agents
SessionInputs(now) ==
    { [main |-> m, runs |-> r, dirs |-> NoDirs] :
        m \in { NoMainDir, [state |-> "notdir", files |-> <<>>], MainDir(<<>>) }
              \cup { MainDir(<<f>>) : f \in { g \in SessionFilesAt(now) :
                                               g.lastTask \in {"task B", "task E"} } },
        r \in Registries(now) }
    \cup
    { [main |-> MainDir(<<f>>), runs |-> r, dirs |-> d] :
        f \in { g \in SessionFilesAt(now) : g.lastTask = "task A" },
        r \in { q \in Registries(now) : Len(q) <= 1 },
        d \in DirStatesAt(now) }
    \cup
    { [main |-> NoMainDir, runs |-> r, dirs |-> NoDirs] : r \in LongRegistries(now) }

SessStart(in) ==
    /\ sMain = in.main /\ sRuns = in.runs /\ sDirs = in.dirs
    /\ sPc = "main"
    /\ sIdx = 1
    /\ kira = KiraInit
    /\ agentData = [k \in AgentKeys |-> NoAgent]
    /\ subagentList = <<>>
    /\ sResult = <<>>

InitSessions ==
    /\ TailOff /\ ProvOff /\ CronOff /\ UpOff /\ LabelOff /\ FnOff
    /\ sNow \in {10000000}
    /\ \E in \in SessionInputs(sNow) : SessStart(in)

\* the main stream pass alone, over every listing
InitMain ==
    /\ TailOff /\ ProvOff /\ CronOff /\ UpOff /\ LabelOff /\ FnOff
    /\ sNow \in {10000000}
    /\ \E m \in MainListings(sNow) : SessStart([main |-> m, runs |-> <<>>, dirs |-> NoDirs])

\* if (fs.existsSync(mainSessionsDir)) is false
SessMainAbsent ==
    /\ sPc = "main" /\ sMain.state = "absent"
    /\ sPc' = "runs"
    /\ UNCHANGED <<sNow, sRuns, sIdx, sMain, sDirs, kira, agentData, subagentList, sResult>>
    /\ UNCHANGED notSess

\* fs.readdirSync(mainSessionsDir) throws: catch (e) returns the empty result
SessMainThrows ==
    /\ sPc = "main" /\ sMain.state = "notdir"
    /\ sPc' = "done"
    /\ sResult' = EmptySessions
    /\ UNCHANGED <<sNow, sRuns, sIdx, sMain, sDirs, kira, agentData, subagentList>>
    /\ UNCHANGED notSess

\* one iteration of for (const file of files.slice(0, 15)), header.type === 'session'
SessMainFold ==
    /\ sPc = "main" /\ sMain.state = "dir"
    /\ sIdx <= Min(Len(sMain.files), MaxMainFiles)
    /\ sMain.files[sIdx].header = "session"
    /\ kira' = MainFold(kira, sMain.files[sIdx], sNow)
    /\ sIdx' = sIdx + 1
    /\ UNCHANGED <<sNow, sRuns, sPc, sMain, sDirs, agentData, subagentList, sResult>>
    /\ UNCHANGED notSess

\* one iteration for a file whose header is no session header: continue
SessMainSkip ==
    /\ sPc = "main" /\ sMain.state = "dir"
    /\ sIdx <= Min(Len(sMain.files), MaxMainFiles)
    /\ sMain.files[sIdx].header # "session"
    /\ sIdx' = sIdx + 1
    /\ UNCHANGED <<sNow, sRuns, sPc, sMain, sDirs, kira, agentData, subagentList, sResult>>
    /\ UNCHANGED notSess

\* agentData['kira'] = kira
SessMainEnd ==
    /\ sPc = "main" /\ sMain.state = "dir"
    /\ sIdx > Min(Len(sMain.files), MaxMainFiles)
    /\ agentData' = [agentData EXCEPT !["kira"] = kira]
    /\ sPc' = "runs"
    /\ sIdx' = 1
    /\ UNCHANGED <<sNow, sRuns, sMain, sDirs, kira, subagentList, sResult>>
    /\ UNCHANGED notSess

\* one iteration of for (const [runId, run] of Object.entries(runsData.runs))
SessRunStep ==
    /\ sPc = "runs" /\ sIdx <= Len(sRuns)
    /\ sRuns[sIdx].kind = "ok"
    /\ LET run == sRuns[sIdx]
           info == labelToAgent(run.label)
           existing == agentData[info.id]
       IN  /\ agentData' =
                IF RunWrites(run, info, existing, sNow)
                THEN [agentData EXCEPT ![info.id] = RunAgentRecord(run, info, existing, sNow)]
                ELSE agentData
           /\ subagentList' = Append(subagentList, SubagentEntry(sIdx, run, sNow))
    /\ sIdx' = sIdx + 1
    /\ UNCHANGED <<sNow, sRuns, sPc, sMain, sDirs, kira, sResult>>
    /\ UNCHANGED notSess

\* run.label of a null entry, or run.task.substring of a task that is no
\* string, throws: catch (e) returns the empty result
SessRunThrows ==
    /\ sPc = "runs" /\ sIdx <= Len(sRuns)
    /\ sRuns[sIdx].kind # "ok"
    /\ sPc' = "done"
    /\ sResult' = EmptySessions
    /\ UNCHANGED <<sNow, sRuns, sIdx, sMain, sDirs, kira, agentData, subagentList>>
    /\ UNCHANGED notSess

\* the run loop is over
SessRunsEnd ==
    /\ sPc = "runs" /\ sIdx > Len(sRuns)
    /\ sPc' = "dirs"
    /\ sIdx' = 1
    /\ UNCHANGED <<sNow, sRuns, sMain, sDirs, kira, agentData, subagentList, sResult>>
    /\ UNCHANGED notSess

\* one iteration of the directory pass: no sessions directory, or no file in it
SessDirSkip ==
    /\ sPc = "dirs" /\ sIdx <= Len(AgentDirs)
    /\ ~sDirs[sIdx].present
    /\ sIdx' = sIdx + 1
    /\ UNCHANGED <<sNow, sRuns, sPc, sMain, sDirs, kira, agentData, subagentList, sResult>>
    /\ UNCHANGED notSess

\* one iteration of the directory pass: the newest file is parsed
SessDirFold ==
    /\ sPc = "dirs" /\ sIdx <= Len(AgentDirs)
    /\ sDirs[sIdx].present
    /\ LET id == AgentDirs[sIdx].id
           existing == agentData[id]
           parsed == sDirs[sIdx].file
       IN  agentData' =
                IF DirWrites(existing, parsed)
                THEN [agentData EXCEPT ![id] = DirAgentRecord(sIdx, existing, parsed, sNow)]
                ELSE agentData
    /\ sIdx' = sIdx + 1
    /\ UNCHANGED <<sNow, sRuns, sPc, sMain, sDirs, kira, subagentList, sResult>>
    /\ UNCHANGED notSess

\* final assembly, events, return
SessAssemble ==
    /\ sPc = "dirs" /\ sIdx > Len(AgentDirs)
    /\ sPc' = "done"
    /\ sResult' =
        [agents |-> AssembleAgents(agentData),
         subagents |-> Take(subagentList, MaxSubagents),
         events |-> Take(SessionEvents(AssembleAgents(agentData), subagentList), MaxEvents)]
    /\ UNCHANGED <<sNow, sRuns, sIdx, sMain, sDirs, kira, agentData, subagentList>>
    /\ UNCHANGED notSess

NextMain ==
    \/ SessMainAbsent
    \/ SessMainThrows
    \/ SessMainFold
    \/ SessMainSkip
    \/ SessMainEnd

NextSessions ==
    \/ SessMainAbsent
    \/ SessMainThrows
    \/ SessMainFold
    \/ SessMainSkip
    \/ SessMainEnd
    \/ SessRunStep
    \/ SessRunThrows
    \/ SessRunsEnd
    \/ SessDirSkip
    \/ SessDirFold
    \/ SessAssemble

SpecSessions == InitSessions /\ [][NextSessions]_vars

SpecMain == InitMain /\ [][NextMain]_vars

(***************************************************************************)
(* TTL Cache & Refresh Orchestrator                                        *)
(*                                                                         *)
(* getSessions, getCrons and getMemory hold no await: each runs to its     *)
(* return in one step.  getMetrics suspends at its two awaits, and getAll  *)
(* at its Promise.all; the calls of a caller that does not await, the      *)
(* clock and the other process's writes to the disk interleave there.      *)
(***************************************************************************)
MaxOps == 2

MaxTicks == 1

MaxWrites == 1

CacheTTL == 5000

Keys == {"sessions", "crons", "memory", "metrics"}

Slots == {1, 2}

ClockStart == CHOOSE t \in {100000} : TRUE

\* how far Date.now() moves between two steps
ClockSteps == {4999, 5000}

\* what detectOpenClawRoot() may return
detectOpenClawRoot == {"none", "root"}

\* a workspace found although no root was
detectWorkspaceAnyway(root) == {"none", "ws"}

\* what detectWorkspace(openclawRoot) may return
detectWorkspace(root) == IF root = "none" THEN {"none"} ELSE {"none", "ws"}

\* get isAvailable()
isAvailable == openclawRoot # "none"

\* the states of the runtime's files: ver counts the rewrites of their
\* content;
\* sessKind "bad" makes a read inside getSessions' try throw; mainDir says
\* whether agents/main/sessions exists; cronsKind is what cron/jobs.json
\* parses to (nothing, a jobs field that is no array, a job list); memKind
\* "notdir" is a workspace/memory that cannot be listed
HealthyDisk(v) ==
    [ver |-> v, sessKind |-> "ok", mainDir |-> TRUE, cronsKind |-> "list", memKind |-> "ok"]

Disks ==
    { HealthyDisk(0),
      [HealthyDisk(0) EXCEPT !.sessKind = "bad"],
      [HealthyDisk(0) EXCEPT !.mainDir = FALSE],
      [HealthyDisk(0) EXCEPT !.cronsKind = "absent"],
      [HealthyDisk(0) EXCEPT !.cronsKind = "notlist"],
      [HealthyDisk(0) EXCEPT !.memKind = "notdir"] }

\* the sessions a read of the disk with content ver yields
SessionsAt(ver) ==
    [agents |-> [i \in 1..Len(AgentOrder) |->
                    [id |-> AgentOrder[i],
                     status |-> IF i <= ver + 1 THEN "active" ELSE "offline",
                     tokensUsed |-> 10 * (ver + 1),
                     apiCalls |-> ver]],
     subagents |-> [i \in 1..ver |-> [status |-> "running"]],
     events |-> <<>>]

\* the jobs a read of cron/jobs.json with content ver yields
CronsAt(ver) ==
    [i \in 1..(ver + 1) |->
        [id |-> i, enabled |-> (i = 1), lastStatus |-> IF i = 2 THEN "error" ELSE "ok"]]

NullNote == [present |-> FALSE, size |-> 0]

DefaultMemory == [longTerm |-> NullNote, daily |-> <<>>, heartbeat |-> NullNote]

MemoryAt(ver) ==
    [longTerm |-> [present |-> TRUE, size |-> ver + 1], daily |-> <<>>,
     heartbeat |-> NullNote]

\* a stored or returned value, by what it was made from: kind "data" is
\* the content ver of the disk, kind "default" the source's empty value;
\* seq is the number of calls that had begun when it was made
Val(key, kind, ver, seq) ==
    [present |-> TRUE, key |-> key, kind |-> kind, ver |-> ver, seq |-> seq]

\* undefined
NoValue(key) ==
    [present |-> FALSE, key |-> key, kind |-> "default", ver |-> 0, seq |-> 0]

RECURSIVE SumTokens(_)
SumTokens(agents) ==
    IF agents = <<>> THEN 0 ELSE Head(agents).tokensUsed + SumTokens(Tail(agents))

\* the object a value of sessions, crons or memory is
Body(v) ==
    CASE v.key = "sessions" -> IF v.kind = "data" THEN SessionsAt(v.ver) ELSE EmptySessions
      [] v.key = "crons" -> IF v.kind = "data" THEN CronsAt(v.ver) ELSE <<>>
      [] v.key = "memory" -> IF v.kind = "data" THEN MemoryAt(v.ver) ELSE DefaultMemory

\* the metrics object getMetrics builds from the sessions and crons it awaited
MetricsBody(sv, cv) ==
    [tokensToday |-> SumTokens(Body(sv).agents),
     activeAgents |-> Len(SelectSeq(Body(sv).agents, LAMBDA a : a.status = "active")),
     activeSubagents |-> Len(SelectSeq(Body(sv).subagents, LAMBDA x : x.status = "running")),
     totalCrons |-> Len(Body(cv)),
     activeCrons |-> Len(SelectSeq(Body(cv), LAMBDA c : c.enabled)),
     failedCrons |-> Len(SelectSeq(Body(cv), LAMBDA c : c.lastStatus = "error"))]

\* a metrics value: the sessions and crons values it was built from, and
\* the instants at which these were read
MetricsVal(sv, cv, seq, sAt, cAt) ==
    [present |-> TRUE, key |-> "metrics", kind |-> "data", ver |-> 0, seq |-> seq,
     fromSessions |-> sv, fromCrons |-> cv, sessionsAt |-> sAt, cronsAt |-> cAt]

NoMetrics ==
    [present |-> FALSE, key |-> "metrics", kind |-> "default", ver |-> 0, seq |-> 0,
     fromSessions |-> NoValue("sessions"), fromCrons |-> NoValue("crons"),
     sessionsAt |-> 0, cronsAt |-> 0]

NoValueOf(key) == IF key = "metrics" THEN NoMetrics ELSE NoValue(key)

\* the provider's cache as one value: _cache, _cacheTimestamps, and the
\* record of the writes
PS == [cache |-> cache, ts |-> cacheTimestamps, w |-> written]

\* an entry that expires a millisecond early
IsCacheValidShorter(ps, key, t) ==
    ps.ts[key] # 0 /\ (t - ps.ts[key]) < CacheTTL - 1

\* _isCacheValid(key), at Date.now() = t
IsCacheValid(ps, key, t) ==
    ps.ts[key] # 0 /\ (t - ps.ts[key]) < CacheTTL

\* _setCache(key, data), at Date.now() = t
SetCache(ps, key, val, t) ==
    [cache |-> [ps.cache EXCEPT ![key] = val],
     ts |-> [ps.ts EXCEPT ![key] = t],
     w |-> [ps.w EXCEPT ![key] = [at |-> t, live |-> TRUE]]]

\* what a cache lookup of key at time t is: hit is what the code decides;
\* expect and recent say whether the key was stored less than a TTL ago,
\* with and without regard to an invalidation since
Lookup(ps, key, t) ==
    [key |-> key,
     hit |-> IsCacheValid(ps, key, t),
     expect |-> ps.w[key].live /\ (t - ps.w[key].at) < CacheTTL,
     recent |-> ps.w[key].at # 0 /\ (t - ps.w[key].at) < CacheTTL]

Event(ps, key, t, threw, read, stored, deferred, val) ==
    [key |-> key,
     hit |-> Lookup(ps, key, t).hit,
     expect |-> Lookup(ps, key, t).expect,
     recent |-> Lookup(ps, key, t).recent,
     threw |-> threw, read |-> read, stored |-> stored, deferred |-> deferred,
     val |-> val]

\* the instant at which the value a lookup of key at time t yields was
\* made: that of the store on a hit, t itself otherwise
MadeAt(ps, key, t) == IF IsCacheValid(ps, key, t) THEN ps.ts[key] ELSE t

\* return this._cache[key]
Hit(ps, key, t) ==
    [ps |-> ps, threw |-> FALSE, val |-> ps.cache[key],
     ev |-> Event(ps, key, t, FALSE, FALSE, FALSE, FALSE, ps.cache[key])]

\* return this._setCache(key, body)
Miss(ps, key, kind, read, t, seq) ==
    LET v == Val(key, kind, disk.ver, seq)
    IN  [ps |-> SetCache(ps, key, v, t), threw |-> FALSE, val |-> v,
         ev |-> Event(ps, key, t, FALSE, read, TRUE, FALSE, v)]

\* an exception leaves the accessor: the promise it returned is rejected
Throw(ps, key, t) ==
    [ps |-> ps, threw |-> TRUE, val |-> NoValue(key),
     ev |-> Event(ps, key, t, TRUE, TRUE, FALSE, FALSE, NoValue(key))]

\* the body of getSessions' try block, and of its catch
ReadSessions(d) == IF d.sessKind = "bad" THEN "default" ELSE "data"

getSessions(ps, t, seq) ==
    IF IsCacheValid(ps, "sessions", t) THEN Hit(ps, "sessions", t)
    ELSE IF openclawRoot = "none" THEN Miss(ps, "sessions", "default", FALSE, t, seq)
    ELSE Miss(ps, "sessions", ReadSessions(disk), TRUE, t, seq)

\* data.jobs.map(...) throws when jobs is there and is no array
getCrons(ps, t, seq) ==
    IF IsCacheValid(ps, "crons", t) THEN Hit(ps, "crons", t)
    ELSE IF openclawRoot = "none" THEN Miss(ps, "crons", "default", FALSE, t, seq)
    ELSE IF disk.cronsKind = "absent" THEN Miss(ps, "crons", "default", TRUE, t, seq)
    ELSE IF disk.cronsKind = "notlist" THEN Throw(ps, "crons", t)
    ELSE Miss(ps, "crons", "data", TRUE, t, seq)

\* fs.readdirSync(memoryDir) throws when memory exists and is no directory
getMemory(ps, t, seq) ==
    IF IsCacheValid(ps, "memory", t) THEN Hit(ps, "memory", t)
    ELSE IF workspace = "none" THEN Miss(ps, "memory", "default", FALSE, t, seq)
    ELSE IF disk.memKind = "notdir" THEN Throw(ps, "memory", t)
    ELSE Miss(ps, "memory", "data", TRUE, t, seq)

\* getMetrics up to its first await: the cache test, then this.getSessions()
MetricsStart(ps, t, seq) ==
    IF IsCacheValid(ps, "metrics", t)
    THEN [ps |-> ps, hit |-> TRUE, val |-> ps.cache["metrics"],
          sessions |-> NoValue("sessions"), sessionsAt |-> 0,
          evs |-> <<Event(ps, "metrics", t, FALSE, FALSE, FALSE, FALSE, ps.cache["metrics"])>>]
    ELSE LET gs == getSessions(ps, t, seq)
         IN  [ps |-> gs.ps, hit |-> FALSE, val |-> NoMetrics,
              sessions |-> gs.val, sessionsAt |-> MadeAt(ps, "sessions", t),
              evs |-> <<Event(ps, "metrics", t, FALSE, TRUE, FALSE, TRUE, NoMetrics),
                        gs.ev>>]

\* a timestamp table that an invalidation left as it was
KeptTimestamps == cacheTimestamps

\* invalidateCache: this._cacheTimestamps = {}
InvalidatedTimestamps == [k \in Keys |-> 0]

\* a timestamp table that getAll did not clear
UnclearedTimestamps == cacheTimestamps

\* getAll: this._cacheTimestamps = {}
GetAllTimestamps == [k \in Keys |-> 0]

\* no key is live after an invalidation
Killed(w) == [k \in Keys |-> [at |-> w[k].at, live |-> FALSE]]

IdleCall ==
    [op |-> "idle", start |-> 0, startAt |-> 0, alone |-> TRUE,
     afterInvalidate |-> FALSE,
     mSessionsAt |-> 0, mCronsAt |-> 0,
     mpc |-> "none", mHit |-> FALSE, mState |-> "none",
     mSessions |-> NoValue("sessions"), mCrons |-> NoValue("crons"),
     metrics |-> NoMetrics, mStoredAt |-> 0, mDoneAt |-> 0,
     apc |-> "none", aState |-> "none",
     sessions |-> NoValue("sessions"),
     cronsState |-> "none", crons |-> NoValue("crons"),
     memoryState |-> "none", memory |-> NoValue("memory"),
     failed |-> {}]

\* the slot holds no call
Free(c) == calls[c].op = "idle"

\* the record of a step of the provider: the operation, whether the
\* operation before it was invalidateCache, the cache lookups it made, and
\* the call that returned or was rejected at it
Step(op, evs, done) ==
    [op |-> op, afterInvalidate |-> lastStep.op = "invalidateCache", events |-> evs,
     done |-> done]

\* a step of the environment makes no lookup and ends no call
EnvStep == [lastStep EXCEPT !.events = <<>>, !.done = IdleCall]

\* the suspended getAll calls other than that of slot c have seen a step
\* of the provider that was not theirs
Interleaved(c) ==
    [b \in Slots |-> IF b # c /\ calls[b].op = "getAll"
                     THEN [calls[b] EXCEPT !.alone = FALSE] ELSE calls[b]]

\* the call in slot c goes on as rec, or leaves the slot when rec is over
Proceed(c, rec, op, evs) ==
    IF rec.mpc = "done" /\ rec.apc \in {"none", "done"}
    THEN /\ calls' = [Interleaved(c) EXCEPT ![c] = IdleCall]
         /\ lastStep' = Step(op, evs, rec)
    ELSE /\ calls' = [Interleaved(c) EXCEPT ![c] = rec]
         /\ lastStep' = Step(op, evs, IdleCall)

Install(ps) ==
    /\ cache' = ps.cache
    /\ cacheTimestamps' = ps.ts
    /\ written' = ps.w

Init ==
    /\ TailOff /\ SessOff /\ CronOff /\ UpOff /\ LabelOff /\ FnOff
    /\ openclawRoot \in detectOpenClawRoot
    /\ workspace \in detectWorkspace(openclawRoot)
    /\ disk \in Disks
    /\ workspace = "none" => disk = HealthyDisk(0)
    /\ cache = [k \in Keys |-> NoValueOf(k)]
    /\ cacheTimestamps = [k \in Keys |-> 0]
    /\ written = [k \in Keys |-> [at |-> 0, live |-> FALSE]]
    /\ dateNow = ClockStart
    /\ calls = [c \in Slots |-> IdleCall]
    /\ opSeq = 0
    /\ lastStep = [op |-> "new", afterInvalidate |-> FALSE, events |-> <<>>, done |-> IdleCall]

\* time passes
Tick ==
    /\ \E d \in ClockSteps :
        /\ dateNow + d <= ClockStart + MaxTicks * CacheTTL
        /\ dateNow' = dateNow + d
    /\ lastStep' = EnvStep
    /\ UNCHANGED <<openclawRoot, workspace, cache, cacheTimestamps, disk, calls, opSeq,
                   written>>
    /\ UNCHANGED notProv

\* the millisecond passes that completes a TTL since the start
TickOver ==
    /\ (dateNow - ClockStart) % CacheTTL = CacheTTL - 1
    /\ dateNow' = dateNow + 1
    /\ lastStep' = EnvStep
    /\ UNCHANGED <<openclawRoot, workspace, cache, cacheTimestamps, disk, calls, opSeq,
                   written>>
    /\ UNCHANGED notProv

\* the agent runtime rewrites the files under the root
DiskWrite ==
    /\ openclawRoot # "none"
    /\ disk.ver < MaxWrites
    /\ disk' = [disk EXCEPT !.ver = @ + 1]
    /\ lastStep' = EnvStep
    /\ UNCHANGED <<openclawRoot, workspace, cache, cacheTimestamps, dateNow, calls, opSeq,
                   written>>
    /\ UNCHANGED notProv

\* a caller calls getSessions()
CallGetSessions ==
    /\ opSeq < MaxOps
    /\ LET r == getSessions(PS, dateNow, opSeq + 1)
       IN  Install(r.ps) /\ lastStep' = Step("getSessions", <<r.ev>>, IdleCall)
    /\ opSeq' = opSeq + 1
    /\ calls' = Interleaved(0)
    /\ UNCHANGED <<openclawRoot, workspace, dateNow, disk>>
    /\ UNCHANGED notProv

\* a caller calls getCrons()
CallGetCrons ==
    /\ opSeq < MaxOps
    /\ LET r == getCrons(PS, dateNow, opSeq + 1)
       IN  Install(r.ps) /\ lastStep' = Step("getCrons", <<r.ev>>, IdleCall)
    /\ opSeq' = opSeq + 1
    /\ calls' = Interleaved(0)
    /\ UNCHANGED <<openclawRoot, workspace, dateNow, disk>>
    /\ UNCHANGED notProv

\* a caller calls getMemory()
CallGetMemory ==
    /\ opSeq < MaxOps
    /\ LET r == getMemory(PS, dateNow, opSeq + 1)
       IN  Install(r.ps) /\ lastStep' = Step("getMemory", <<r.ev>>, IdleCall)
    /\ opSeq' = opSeq + 1
    /\ calls' = Interleaved(0)
    /\ UNCHANGED <<openclawRoot, workspace, dateNow, disk>>
    /\ UNCHANGED notProv

\* a caller calls getMetrics(): it returns the cached value, or calls
\* this.getSessions() and suspends at its first await
CallGetMetrics ==
    /\ opSeq < MaxOps
    /\ \E c \in Slots :
        /\ Free(c)
        /\ \A b \in Slots : b < c => ~Free(b)
        /\ LET r == MetricsStart(PS, dateNow, opSeq + 1)
           IN  /\ Install(r.ps)
               /\ Proceed(c,
                    [IdleCall EXCEPT
                        !.op = "getMetrics", !.start = opSeq + 1,
                        !.afterInvalidate = (lastStep.op = "invalidateCache"),
                        !.mpc = IF r.hit THEN "done" ELSE "m2",
                        !.mHit = r.hit,
                        !.mState = IF r.hit THEN "ok" ELSE "pending",
                        !.metrics = r.val,
                        !.mSessions = r.sessions,
                        !.mSessionsAt = r.sessionsAt],
                    "getMetrics", r.evs)
    /\ opSeq' = opSeq + 1
    /\ UNCHANGED <<openclawRoot, workspace, dateNow, disk>>
    /\ UNCHANGED notProv

\* getMetrics resumes with the sessions, calls this.getCrons() and suspends
\* at its second await, or is rejected when getCrons throws
MetricsAwaitCrons ==
    /\ \E c \in Slots :
        /\ calls[c].mpc = "m2"
        /\ LET r == getCrons(PS, dateNow, opSeq)
           IN  /\ Install(r.ps)
               /\ Proceed(c,
                    IF r.threw
                    THEN [calls[c] EXCEPT !.mpc = "done", !.mState = "threw",
                                          !.mDoneAt = dateNow,
                                          !.failed = @ \cup {"metrics"}]
                    ELSE [calls[c] EXCEPT !.mpc = "m3", !.mCrons = r.val,
                                          !.mCronsAt = MadeAt(PS, "crons", dateNow)],
                    "resume", <<r.ev>>)
    /\ UNCHANGED <<openclawRoot, workspace, dateNow, disk, opSeq>>
    /\ UNCHANGED notProv

\* getMetrics resumes with the crons, reads the sessions directory, builds
\* the metrics and stores them; fs.readdirSync(this.sessionsDir) throws when
\* the root is there and agents/main/sessions is not
MetricsCompute ==
    /\ \E c \in Slots :
        /\ calls[c].mpc = "m3"
        /\ IF openclawRoot # "none" /\ ~disk.mainDir
           THEN /\ Proceed(c,
                        [calls[c] EXCEPT !.mpc = "done", !.mState = "threw",
                                         !.mDoneAt = dateNow,
                                         !.failed = @ \cup {"metrics"}],
                        "resume", <<>>)
                /\ UNCHANGED <<cache, cacheTimestamps, written>>
           ELSE LET v == MetricsVal(calls[c].mSessions, calls[c].mCrons, opSeq,
                                     calls[c].mSessionsAt, calls[c].mCronsAt)
                    ps == SetCache(PS, "metrics", v, dateNow)
                IN  /\ Install(ps)
                    /\ Proceed(c,
                            [calls[c] EXCEPT !.mpc = "done", !.mState = "ok", !.metrics = v,
                                             !.mStoredAt = ps.ts["metrics"],
                                             !.mDoneAt = dateNow],
                            "resume", <<>>)
    /\ UNCHANGED <<openclawRoot, workspace, dateNow, disk, opSeq>>
    /\ UNCHANGED notProv

\* a caller calls getAll(): it clears the timestamps, calls the four
\* accessors in turn and suspends at await Promise.all
CallGetAll ==
    /\ opSeq < MaxOps
    /\ \E c \in Slots :
        /\ Free(c)
        /\ \A b \in Slots : b < c => ~Free(b)
        /\ LET seq == opSeq + 1
               ps0 == [cache |-> cache, ts |-> GetAllTimestamps, w |-> Killed(written)]
               rs == getSessions(ps0, dateNow, seq)
               rc == getCrons(rs.ps, dateNow, seq)
               rm == getMemory(rc.ps, dateNow, seq)
               rx == MetricsStart(rm.ps, dateNow, seq)
           IN  /\ Install(rx.ps)
               /\ Proceed(c,
                    [IdleCall EXCEPT
                        !.op = "getAll", !.start = seq, !.startAt = dateNow,
                        !.afterInvalidate = (lastStep.op = "invalidateCache"),
                        !.mpc = IF rx.hit THEN "done" ELSE "m2",
                        !.mHit = rx.hit,
                        !.mState = IF rx.hit THEN "ok" ELSE "pending",
                        !.metrics = rx.val,
                        !.mSessions = rx.sessions,
                        !.mSessionsAt = rx.sessionsAt,
                        !.apc = "join", !.aState = "pending",
                        !.sessions = rs.val,
                        !.cronsState = IF rc.threw THEN "threw" ELSE "ok",
                        !.crons = rc.val,
                        !.memoryState = IF rm.threw THEN "threw" ELSE "ok",
                        !.memory = rm.val,
                        !.failed = {k \in {"crons"} : rc.threw}
                                   \cup {k \in {"memory"} : rm.threw}],
                    "getAll", <<rs.ev, rc.ev, rm.ev>> \o rx.evs)
    /\ opSeq' = opSeq + 1
    /\ UNCHANGED <<openclawRoot, workspace, dateNow, disk>>
    /\ UNCHANGED notProv

\* getAll resumes from Promise.all: with the four values once all four are
\* there, or with the rejection as soon as one of the promises is rejected
GetAllJoin ==
    /\ \E c \in Slots :
        /\ calls[c].apc = "join"
        /\ LET rejected == \/ calls[c].cronsState = "threw"
                           \/ calls[c].memoryState = "threw"
                           \/ calls[c].mState = "threw"
           IN  /\ rejected \/ calls[c].mState = "ok"
               /\ Proceed(c,
                    [calls[c] EXCEPT !.apc = "done", !.mpc = "done",
                                     !.aState = IF rejected THEN "threw" ELSE "ok"],
                    "resume", <<>>)
    /\ UNCHANGED <<openclawRoot, workspace, cache, cacheTimestamps, dateNow, disk, opSeq,
                   written>>
    /\ UNCHANGED notProv

\* a caller calls invalidateCache()
InvalidateCache ==
    /\ lastStep.op # "invalidateCache"
    /\ cache' = [k \in Keys |-> NoValueOf(k)]
    /\ cacheTimestamps' = InvalidatedTimestamps
    /\ written' = Killed(written)
    /\ lastStep' = Step("invalidateCache", <<>>, IdleCall)
    /\ calls' = Interleaved(0)
    /\ UNCHANGED <<openclawRoot, workspace, dateNow, disk, opSeq>>
    /\ UNCHANGED notProv

Next ==
    \/ Tick
    \/ DiskWrite
    \/ CallGetSessions
    \/ CallGetCrons
    \/ CallGetMemory
    \/ CallGetMetrics
    \/ MetricsAwaitCrons
    \/ MetricsCompute
    \/ CallGetAll
    \/ GetAllJoin
    \/ InvalidateCache

Spec == Init /\ [][Next]_vars

\* the cache of a new provider
NewCache ==
    [cache |-> [k \in Keys |-> NoValueOf(k)],
     ts |-> [k \in Keys |-> 0],
     w |-> [k \in Keys |-> [at |-> 0, live |-> FALSE]]]

\* getSessions, getCrons and getMetrics over a root and a workspace that
\* are there and files that read well, the clock passing the end of a TTL;
\* the provider is new, or has just answered a first getSessions()
InitStale ==
    /\ TailOff /\ SessOff /\ CronOff /\ UpOff /\ LabelOff /\ FnOff
    /\ openclawRoot = "root"
    /\ workspace = "ws"
    /\ disk = HealthyDisk(0)
    /\ dateNow = ClockStart
    /\ \E ps \in {NewCache,
                   SetCache(NewCache, "sessions", Val("sessions", "data", 0, 0), ClockStart)} :
            /\ cache = ps.cache
            /\ cacheTimestamps = ps.ts
            /\ written = ps.w
    /\ calls = [c \in Slots |-> IdleCall]
    /\ opSeq = 0
    /\ lastStep = [op |-> "new", afterInvalidate |-> FALSE, events |-> <<>>, done |-> IdleCall]

NextStale ==
    \/ Tick
    \/ TickOver
    \/ DiskWrite
    \/ CallGetSessions
    \/ CallGetCrons
    \/ CallGetMetrics
    \/ MetricsAwaitCrons
    \/ MetricsCompute

SpecStale == InitStale /\ [][NextStale]_vars

(***************************************************************************)
(* Schedule Reader: the owner of a job                                     *)
(*                                                                         *)
(* getCrons() maps every job of data.jobs to a record; the file is read    *)
(* again by every call that misses the cache.  A job name is the sequence  *)
(* of its characters.                                                      *)
(***************************************************************************)
MaxJobs == 2

MaxReads == 2

\* job.agentId: absent, or an agent id
NoAgentId == "none"

\* the names of the jobs
JobNames ==
    { <<>>,
      <<"n", "i", "g", "h", "t", "l", "y">>,
      <<"F", "o", "r", "g", "e", " ", "h", "u", "n", "t", "e", "r">>,
      <<"r", "e", "v", "e", "n", "u", "e">>,
      <<"c", "o", "n", "t", "e", "n", "t", " ", "a", "u", "d", "i", "t">>,
      <<"f", "l", "e", "e", "t">>,
      <<"s", "e", "c", "u", "r", "i", "t", "y">>,
      <<"g", "i", "t", " ", "B", "A", "C", "K", "U", "P">>,
      <<"m", "o", "r", "n", "i", "n", "g">> }

\* the jobs a jobs.json may hold
Jobs ==
    [name : JobNames, agentId : {NoAgentId, "hunter", "echo", "main"}, enabled : BOOLEAN]

JobLists == UNION { [1..n -> Jobs] : n \in 0..MaxJobs }

\* String.prototype.includes
Includes(str, sub) ==
    \E i \in 1..(Len(str) - Len(sub) + 1) : SubSeq(str, i, i + Len(sub) - 1) = sub

\* an owner that also depends on whether the job is enabled
DefaultOwnerOfEnabled(job) ==
    IF job.agentId # NoAgentId /\ job.enabled THEN job.agentId ELSE "kira"

\* let owner = job.agentId || 'kira'
DefaultOwner(job) == IF job.agentId # NoAgentId THEN job.agentId ELSE "kira"

\* the chain of nameLower.includes(...) tests, in the order of the code
KeywordChain(nameLower, owner) ==
    LET has(w) == Includes(nameLower, w)
    IN  IF has(<<"f", "o", "r", "g", "e">>) THEN "forge"
        ELSE IF has(<<"h", "u", "n", "t", "e", "r">>) \/ has(<<"r", "e", "v", "e", "n", "u", "e">>) THEN "hunter"
        ELSE IF has(<<"e", "c", "h", "o">>) \/ has(<<"c", "o", "n", "t", "e", "n", "t">>)
                \/ has(<<"m", "a", "r", "k", "e", "t", "i", "n", "g">>) THEN "echo"
        ELSE IF has(<<"a", "t", "l", "a", "s">>) \/ has(<<"s", "t", "a", "n", "d", "u", "p">>)
                \/ has(<<"f", "l", "e", "e", "t">>) THEN "atlas"
        ELSE IF has(<<"s", "e", "n", "t", "i", "n", "e", "l">>) \/ has(<<"s", "e", "c", "u", "r", "i", "t", "y">>)
                \/ has(<<"a", "u", "d", "i", "t">>) THEN "sentinel"
        ELSE IF has(<<"b", "a", "c", "k", "u", "p">>) \/ has(<<"g", "i", "t">>) THEN "forge"
        ELSE IF has(<<"m", "o", "r", "n", "i", "n", "g">>) \/ has(<<"i", "n", "s", "p", "i", "r", "a", "t", "i", "o", "n">>) THEN "kira"
        ELSE owner

\* the chain over the name as it is written
CronOwnerCaseSensitive(job) == KeywordChain(job.name, DefaultOwner(job))

\* const nameLower = (job.name || '').toLowerCase(), then the chain
CronOwner(job) == KeywordChain(ToLowerCase(job.name), DefaultOwner(job))

\* the record data.jobs.map builds for the job at index i
CronJobRecord(i, job) ==
    [id |-> i, name |-> job.name,
     status |-> IF job.enabled THEN "active" ELSE "disabled",
     enabled |-> job.enabled,
     owner |-> CronOwner(job)]

InitCrons ==
    /\ TailOff /\ SessOff /\ ProvOff /\ UpOff /\ LabelOff /\ FnOff
    /\ cronJobs \in JobLists
    /\ cronPc = 0
    /\ cronReads = <<>>

\* a getCrons() that misses the cache: data.jobs.map(job => ...)
CronsRead ==
    /\ cronPc < MaxReads
    /\ cronReads' = Append(cronReads, [i \in 1..Len(cronJobs) |-> CronJobRecord(i, cronJobs[i])])
    /\ cronPc' = cronPc + 1
    /\ UNCHANGED cronJobs
    /\ UNCHANGED notCron

NextCrons == CronsRead

SpecCrons == InitCrons /\ [][NextCrons]_vars

(***************************************************************************)
(* Metrics Aggregator: the uptime estimate.  A file name is what the block *)
(* sees of it: whether it starts with boot- and ends with .jsonl, its rank *)
(* in the order of sort(), and what the regular expression and new Date    *)
(* make of it.                                                             *)
(***************************************************************************)

BootName(name, rank, boot, stamp, instant) ==
    [name |-> name, rank |-> rank, boot |-> boot, stamp |-> stamp, instant |-> instant]

\* the names a sessions directory may hold; a stamp is "valid", "invalid"
\* (new Date gives NaN), "rolls" (a day past the end of its month, which an
\* engine may reject or carry into the next month) or "none" (no match)
BootNames(now) ==
    { BootName("0a1b.jsonl", 1, FALSE, "none", 0),
      BootName("boot-2026-02-18_18-17-20-040-a.jsonl", 2, TRUE, "valid", now - 90000000),
      BootName("boot-2026-02-30_10-00-00-000-c.jsonl", 3, TRUE, "rolls", now - 3700000),
      BootName("boot-2026-03-01_10-00-00-000-b.jsonl", 4, TRUE, "valid", now - 5000),
      BootName("boot-2026-13-45_99-99-99-000-d.jsonl", 5, TRUE, "invalid", 0),
      BootName("boot-2027-01-01_00-00-00-000-e.jsonl", 6, TRUE, "valid", now + 5000),
      BootName("boot-latest.jsonl", 7, TRUE, "none", 0) }

\* get sessionsDir(): null without a root; else a path that may not exist
SessionsDirs(now) ==
    { [state |-> "noroot", names |-> {}], [state |-> "absent", names |-> {}] }
        \cup { [state |-> "dir", names |-> n] : n \in SUBSET BootNames(now) }

\* .filter(f => f.startsWith('boot-') && f.endsWith('.jsonl'))
BootFiles(dir) == { f \in dir.names : f.boot }

\* .sort().reverse()[0]
NewestBoot(dir) == CHOOSE f \in BootFiles(dir) : \A g \in BootFiles(dir) : g.rank <= f.rank

\* what new Date(`${datePart}T${timePart}Z`).getTime() may give: 0 stands for NaN
BootInstants(f) ==
    IF f.stamp = "valid" THEN {f.instant}
    ELSE IF f.stamp = "rolls" THEN {0, f.instant}
    ELSE {0}

\* relativeTime(...).replace(' ago', '')
WithoutAgo(rel) ==
    [n |-> rel.n,
     unit |-> IF rel.unit = "s ago" THEN "s" ELSE IF rel.unit = "m ago" THEN "m"
              ELSE IF rel.unit = "h ago" THEN "h" ELSE IF rel.unit = "d ago" THEN "d"
              ELSE rel.unit]

\* let uptime = 'unknown'
UnknownUptime == [n |-> 0, unit |-> "unknown"]

\* the block, given the instant new Date made
UptimeOf(dir, instant, now) ==
    IF dir.state # "dir" \/ BootFiles(dir) = {} THEN UnknownUptime
    ELSE IF NewestBoot(dir).stamp = "none" THEN UnknownUptime
    ELSE IF instant = 0 THEN UnknownUptime
    ELSE WithoutAgo(relativeTime(instant, now))

InitUptime ==
    /\ TailOff /\ SessOff /\ ProvOff /\ CronOff /\ LabelOff /\ FnOff
    /\ upDir \in SessionsDirs(10000000)
    /\ upPc = "start"
    /\ upResult = <<>>

\* fs.readdirSync(this.sessionsDir) of a directory that is not there
UptimeThrows ==
    /\ upPc = "start" /\ upDir.state = "absent"
    /\ upPc' = "done"
    /\ upResult' = [threw |-> TRUE, uptime |-> UnknownUptime]
    /\ UNCHANGED upDir
    /\ UNCHANGED notUp

\* the block runs to its end
UptimeEstimate ==
    /\ upPc = "start" /\ upDir.state # "absent"
    /\ \E instant \in (IF upDir.state = "dir" /\ BootFiles(upDir) # {}
                       THEN BootInstants(NewestBoot(upDir)) ELSE {0}) :
         upResult' = [threw |-> FALSE, uptime |-> UptimeOf(upDir, instant, 10000000)]
    /\ upPc' = "done"
    /\ UNCHANGED upDir
    /\ UNCHANGED notUp

NextUptime ==
    \/ UptimeThrows
    \/ UptimeEstimate

SpecUptime == InitUptime /\ [][NextUptime]_vars

(***************************************************************************)
(* Identity Resolver: labelToAgent over labels made of a first part and    *)
(* of what follows it.                                                     *)
(***************************************************************************)

LabelHeads ==
    { <<>>,
      <<"F", "o", "r", "g", "e">>,
      <<"H", "u", "n", "t", "e", "r">>,
      <<"A", "t", "l", "a", "s">>,
      <<"e", "c", "h", "o">>,
      <<"s", "e", "n", "t", "i", "n", "e", "l">>,
      <<"K", "i", "r", "a">>,
      <<"m", "i", "s", "c">>,
      <<"c", "o", "n", "s", "t", "r", "u", "c", "t", "o", "r">>,
      <<"C", "o", "n", "s", "t", "r", "u", "c", "t", "o", "r">>,
      <<"_", "_", "p", "r", "o", "t", "o", "_", "_">> }

LabelRests ==
    { <<>>, <<"-">>, <<"-", "1">>, <<"-", "a", "-", "b">>, <<"-", "x">> }

Labels == { h \o r : h \in LabelHeads, r \in LabelRests }

InitLabel ==
    /\ TailOff /\ SessOff /\ ProvOff /\ CronOff /\ UpOff /\ FnOff
    /\ lbLabel \in Labels
    /\ lbPc = "start"
    /\ lbResult = <<>>

LabelResolve ==
    /\ lbPc = "start"
    /\ lbResult' = labelToAgent(lbLabel)
    /\ lbPc' = "done"
    /\ UNCHANGED lbLabel
    /\ UNCHANGED notLabel

NextLabel == LabelResolve

SpecLabel == InitLabel /\ [][NextLabel]_vars

(***************************************************************************)
(* Path Resolver: detectOpenClawRoot and detectWorkspace over what the     *)
(* home directory, the environment and the configuration files hold.       *)
(***************************************************************************)

\* what a detection finds: whether ~/.openclaw exists; OPENCLAW_HOME
\* ("unset", or set to a path that is "missing" or "there");
\* ~/.spawnkit/config.json ("absent", "unreadable", "malformed", without an
\* openclawPath: "nopath", or with one that is "missing" or "there");
\* whether <root>/workspace exists; the workspace of openclaw.json and
\* OPENCLAW_WORKSPACE likewise
Homes ==
    [standard : BOOLEAN,
     envHome : {"unset", "missing", "there"},
     config : {"absent", "unreadable", "malformed", "nopath", "missing", "there"},
     wsDir : BOOLEAN,
     wsConfig : {"absent", "malformed", "nopath", "missing", "there"},
     envWs : {"unset", "missing", "there"}]

NoPath == [found |-> "none", raised |-> FALSE]

Path(origin) == [found |-> origin, raised |-> FALSE]

\* a detection that asks the environment before the conventional place
detectOpenClawRootEnvFirst(h) ==
    IF h.envHome = "there" THEN Path("env")
    ELSE IF h.standard THEN Path("standard")
    ELSE IF h.config = "there" THEN Path("config")
    ELSE NoPath

\* detectOpenClawRoot()
detectOpenClawRootIn(h) ==
    IF h.standard THEN Path("standard")
    ELSE IF h.envHome = "there" THEN Path("env")
    ELSE IF h.config \in {"absent"} THEN NoPath
    ELSE IF h.config \in {"unreadable", "malformed"} THEN NoPath
    ELSE IF h.config = "there" THEN Path("config")
    ELSE NoPath

\* detectWorkspace(openclawRoot)
detectWorkspaceIn(root, h) ==
    IF root.found = "none" THEN NoPath
    ELSE IF h.wsDir THEN Path("standard")
    ELSE IF h.wsConfig = "there" THEN Path("config")
    ELSE IF h.envWs = "there" THEN Path("env")
    ELSE NoPath

InitRoot ==
    /\ TailOff /\ SessOff /\ ProvOff /\ CronOff /\ UpOff /\ LabelOff
    /\ fnArgs \in Homes
    /\ fnPc = "start"
    /\ fnResult = <<>>

\* this.openclawRoot = detectOpenClawRoot()
DetectRoot ==
    /\ fnPc = "start" /\ fnArgs \in Homes
    /\ fnResult' = [root |-> detectOpenClawRootIn(fnArgs)]
    /\ fnPc' = "root"
    /\ UNCHANGED fnArgs
    /\ UNCHANGED notFn

\* this.workspace = detectWorkspace(this.openclawRoot)
DetectWorkspace ==
    /\ fnPc = "root"
    /\ fnResult' = [root |-> fnResult.root, workspace |-> detectWorkspaceIn(fnResult.root, fnArgs)]
    /\ fnPc' = "detected"
    /\ UNCHANGED fnArgs
    /\ UNCHANGED notFn

NextRoot ==
    \/ DetectRoot
    \/ DetectWorkspace

SpecRoot == InitRoot /\ [][NextRoot]_vars

(***************************************************************************)
(* Memory Reader: the daily notes.  A file name is a date, YYYY-MM-DD as   *)
(* the number of its day, and the text that follows the date.              *)
(***************************************************************************)

\* .slice(0, 7): last 7 days
MaxDaily == 7

\* content.substring(0, 2000)
DailyExcerpt == 2000

MaxDays == 5

\* the UTF-16 code units of the characters of the names
CodeUnit(c) ==
    CASE c = "-" -> 45 [] c = "." -> 46 [] c = "d" -> 100 [] c = "e" -> 101
      [] c = "m" -> 109 [] c = "t" -> 116 [] c = "x" -> 120

RECURSIVE TextBefore(_, _)
\* the order of sort() on two texts: by code unit, a beginning first
TextBefore(a, b) ==
    IF b = <<>> THEN FALSE
    ELSE IF a = <<>> THEN TRUE
    ELSE IF Head(a) # Head(b) THEN CodeUnit(Head(a)) < CodeUnit(Head(b))
    ELSE TextBefore(Tail(a), Tail(b))

\* the order of sort() on two names of the directory
NameBefore(f, g) == f.day < g.day \/ (f.day = g.day /\ TextBefore(f.rest, g.rest))

\* the names of the memory directory: dated ones, and day 0 for a name
\* that does not begin with a date
MemoryNames ==
    { [day |-> d, rest |-> r] : d \in 1..MaxDays, r \in { <<".", "m", "d">>, <<"-", "e", ".", "m", "d">> } }
    \cup { [day |-> 1, rest |-> <<".", "t", "x", "t">>], [day |-> 0, rest |-> <<".", "m", "d">>] }

\* f.match(/^\d{4}-\d{2}-\d{2}.*\.md$/)
DailyShaped(f) ==
    /\ f.day > 0
    /\ Len(f.rest) >= 3
    /\ SubSeq(f.rest, Len(f.rest) - 2, Len(f.rest)) = <<".", "m", "d">>

RECURSIVE ReplaceFirst(_, _)
\* String.prototype.replace(sub, ''): the first occurrence is taken out
ReplaceFirst(str, sub) ==
    IF Len(str) < Len(sub) THEN str
    ELSE IF SubSeq(str, 1, Len(sub)) = sub THEN SubSeq(str, Len(sub) + 1, Len(str))
    ELSE <<Head(str)>> \o ReplaceFirst(Tail(str), sub)

\* what safeReadText gives of the files: the length of the text of each,
\* 0 for an empty or unreadable one
MemoryContents ==
    { [f \in MemoryNames |-> 100],
      [f \in MemoryNames |-> 3000],
      [f \in MemoryNames |-> IF f.day \in {2, 4} /\ Len(f.rest) = 3 THEN 0 ELSE 2000],
      [f \in MemoryNames |-> IF f.day = 5 THEN 2001 ELSE 0] }

MemoryDirs ==
    { [exists |-> FALSE, names |-> {}, size |-> c] : c \in {[f \in MemoryNames |-> 100]} }
    \cup { [exists |-> TRUE, names |-> n, size |-> c] : n \in SUBSET MemoryNames, c \in MemoryContents }

RECURSIVE Descending(_)
\* .sort().reverse()
Descending(S) ==
    IF S = {} THEN <<>>
    ELSE LET top == CHOOSE f \in S : \A g \in S \ {f} : NameBefore(g, f)
         IN  <<top>> \o Descending(S \ {top})

RECURSIVE Ascending(_)
\* .sort() alone
Ascending(S) ==
    IF S = {} THEN <<>>
    ELSE LET low == CHOOSE f \in S : \A g \in S \ {f} : NameBefore(f, g)
         IN  <<low>> \o Ascending(S \ {low})

\* the listing sorted and not reversed
mdFilesOldestFirst(dir) == Take(Ascending({ f \in dir.names : DailyShaped(f) }), MaxDaily)

\* const mdFiles = readdirSync(...).filter(...).sort().reverse().slice(0, 7)
mdFiles(dir) == Take(Descending({ f \in dir.names : DailyShaped(f) }), MaxDaily)

\* the entry pushed for a file with content
DailyEntry(f, size) ==
    [date |-> [day |-> f.day, rest |-> ReplaceFirst(f.rest, <<".", "m", "d">>)],
     content |-> Min(size, DailyExcerpt),
     size |-> size]

\* result.daily after the loop over mdFiles
DailyOf(dir) ==
    LET kept == SelectSeq(mdFiles(dir), LAMBDA f : dir.size[f] > 0)
    IN  [i \in 1..Len(kept) |-> DailyEntry(kept[i], dir.size[kept[i]])]

InitDaily ==
    /\ TailOff /\ SessOff /\ ProvOff /\ CronOff /\ UpOff /\ LabelOff
    /\ fnArgs \in MemoryDirs
    /\ fnPc = "start"
    /\ fnResult = <<>>

\* if (fs.existsSync(memoryDir)) is false: daily stays []
DailyAbsent ==
    /\ fnPc = "start" /\ fnArgs \in MemoryDirs /\ ~fnArgs.exists
    /\ fnResult' = [daily |-> <<>>]
    /\ fnPc' = "listed"
    /\ UNCHANGED fnArgs
    /\ UNCHANGED notFn

\* the listing and the loop over mdFiles
DailyRead ==
    /\ fnPc = "start" /\ fnArgs \in MemoryDirs /\ fnArgs.exists
    /\ fnResult' = [daily |-> DailyOf(fnArgs)]
    /\ fnPc' = "listed"
    /\ UNCHANGED fnArgs
    /\ UNCHANGED notFn

NextDaily ==
    \/ DailyAbsent
    \/ DailyRead

SpecDaily == InitDaily /\ [][NextDaily]_vars

(***************************************************************************)
(* Session Event Parser: _parseSessionTail over the lines readLastLines    *)
(* retained.  A line is what JSON.parse and the loop body see of it.       *)
(***************************************************************************)

MaxTail == 3

\* a line: kind "garbage" does not parse; "null" parses to null;
\* "assistant" and "user" are message entries of that role; content is
\* "none" (absent or empty), "text" (a string), "blocks" (an array of
\* blocks) or "badblocks" (an array that holds a null); usage is absent
\* or holds counts, an absent count being 0; model and modelId are ""
\* when absent; timestamp is 0 when absent
TailLine(kind, ts, content, textLen, usage, model) ==
    [kind |-> kind, timestamp |-> ts, content |-> content, textLen |-> textLen,
     usage |-> usage, model |-> model]

NoUsage == [present |-> FALSE, input |-> 0, cacheRead |-> 0, output |-> 0]

Usage(i, c, o) == [present |-> TRUE, input |-> i, cacheRead |-> c, output |-> o]

TailLines ==
    { TailLine("garbage", 0, "none", 0, NoUsage, ""),
      TailLine("null", 0, "none", 0, NoUsage, ""),
      TailLine("assistant", 100, "text", 20, Usage(10, 5, 3), "m1"),
      TailLine("assistant", 300, "blocks", 5, Usage(7, 0, 2), ""),
      TailLine("assistant", 200, "none", 0, Usage(1, 1, 1), "m4"),
      TailLine("assistant", 250, "badblocks", 0, Usage(4, 0, 4), "m5"),
      TailLine("assistant", 0, "text", 150, NoUsage, "m2"),
      TailLine("user", 150, "text", 50, NoUsage, ""),
      TailLine("model_change", 0, "none", 0, NoUsage, "m7"),
      TailLine("model-snapshot", 50, "none", 0, NoUsage, "m8") }

Tails == UNION { [1..n -> TailLines] : n \in 0..MaxTail }

\* the locals of _parseSessionTail before the loop; text 0 is no text,
\* else the number of the line that gave it
ParseStart ==
    [idx |-> 1, lastTimestamp |-> 0, lastTask |-> 0, modelUsed |-> "",
     totalTokensIn |-> 0, totalTokensOut |-> 0, apiCalls |-> 0,
     lastAssistantContent |-> 0]

\* if (msg.role === 'assistant' && msg.content)
CountsAsCall(line) == line.kind = "assistant" /\ line.content # "none"

\* the body of the loop for a line that parsed; a null entry, or a null
\* block met by content.find, throws into the catch of the body, which
\* keeps what was assigned before
ParseEntryOf(acc, line, i) ==
    LET a1 == IF line.kind # "null" /\ line.timestamp # 0
                 /\ (acc.lastTimestamp = 0 \/ line.timestamp > acc.lastTimestamp)
              THEN [acc EXCEPT !.lastTimestamp = line.timestamp] ELSE acc
        a2 == IF CountsAsCall(line)
              THEN IF line.content = "badblocks"
                   THEN [a1 EXCEPT !.apiCalls = @ + 1]
                   ELSE [a1 EXCEPT
                           !.apiCalls = @ + 1,
                           !.lastAssistantContent = i,
                           !.totalTokensIn = @ + (IF line.usage.present
                                                  THEN line.usage.input + line.usage.cacheRead
                                                  ELSE 0),
                           !.totalTokensOut = @ + (IF line.usage.present THEN line.usage.output
                                                   ELSE 0),
                           !.modelUsed = IF line.model # "" THEN line.model ELSE @]
              ELSE a1
        a3 == IF line.kind = "user" /\ line.content # "none"
                 /\ line.textLen > 10 /\ line.textLen < 200
              THEN [a2 EXCEPT !.lastTask = i] ELSE a2
        a4 == IF line.kind \in {"model_change", "model-snapshot"} /\ line.model # ""
              THEN [a3 EXCEPT !.modelUsed = line.model] ELSE a3
    IN  [a4 EXCEPT !.idx = i + 1]

InitParse ==
    /\ TailOff /\ SessOff /\ ProvOff /\ CronOff /\ UpOff /\ LabelOff
    /\ fnArgs \in Tails
    /\ fnPc = "lines"
    /\ fnResult = ParseStart

\* one iteration: JSON.parse(line) throws, catch (e) skips the line
ParseSkipsLine ==
    /\ fnPc = "lines" /\ fnResult.idx <= Len(fnArgs)
    /\ fnArgs[fnResult.idx].kind = "garbage"
    /\ fnResult' = [fnResult EXCEPT !.idx = @ + 1]
    /\ UNCHANGED <<fnArgs, fnPc>>
    /\ UNCHANGED notFn

\* one iteration over a line that parsed
ParseEntry ==
    /\ fnPc = "lines" /\ fnResult.idx <= Len(fnArgs)
    /\ fnArgs[fnResult.idx].kind # "garbage"
    /\ fnResult' = ParseEntryOf(fnResult, fnArgs[fnResult.idx], fnResult.idx)
    /\ UNCHANGED <<fnArgs, fnPc>>
    /\ UNCHANGED notFn

\* after the loop: the task falls back on the first sentence of the last
\* assistant text, if that is longer than 10; return
ParseReturn ==
    /\ fnPc = "lines" /\ fnResult.idx > Len(fnArgs)
    /\ fnResult' =
         [fnResult EXCEPT
            !.lastTask = IF @ = 0 /\ fnResult.lastAssistantContent # 0
                            /\ fnArgs[fnResult.lastAssistantContent].textLen > 10
                         THEN fnResult.lastAssistantContent ELSE @]
    /\ fnPc' = "parsed"
    /\ UNCHANGED fnArgs
    /\ UNCHANGED notFn

NextParse ==
    \/ ParseSkipsLine
    \/ ParseEntry
    \/ ParseReturn

SpecParse == InitParse /\ [][NextParse]_vars

(***************************************************************************)
(* Properties of the cache and of getAll                                   *)
(***************************************************************************)
Accessors == {"getSessions", "getCrons", "getMemory", "getMetrics"}

\* the lookups of the step that led to the state
LastEvents == {lastStep.events[i] : i \in DOMAIN lastStep.events}

\* the value the source of a key degrades to
DefaultOf(key) ==
    CASE key = "sessions" -> EmptySessions
      [] key = "crons" -> <<>>
      [] key = "memory" -> DefaultMemory

GetAllReadsAllAfresh ==
    /\ lastStep.op = "getAll"
         => \A e \in LastEvents : e.hit => (e.val.present /\ e.val.seq >= opSeq)
    /\ (lastStep.done.op = "getAll" /\ lastStep.done.aState = "ok")
         => /\ \A v \in {lastStep.done.sessions, lastStep.done.crons,
                          lastStep.done.memory, lastStep.done.metrics,
                          lastStep.done.metrics.fromSessions,
                          lastStep.done.metrics.fromCrons} :
                    v.present /\ v.seq >= lastStep.done.start
            /\ ~lastStep.done.mHit

\* getAll() was called while all four keys had been stored less than a TTL
\* before, and looked none of them up with success
GetAllOverRecentEntries ==
    /\ lastStep.op = "getAll" /\ Len(lastStep.events) >= 4
    /\ \A i \in 1..4 : lastStep.events[i].recent /\ ~lastStep.events[i].hit

\* C3: an accessor returns the stored value without reading its source
\* exactly when its key was written less than 5000 ms ago and neither
\* invalidateCache() nor getAll() happened since; in every other case it
\* reads afresh and stores the result with the current time (getMetrics,
\* when it is over, has stored what it returns at the time it returns).
CacheValidIffWithinTTL ==
    /\ \A e \in LastEvents :
            /\ e.hit <=> e.expect
            /\ e.hit => (~e.read /\ ~e.stored /\ e.val.present)
            /\ ~e.hit => (e.stored \/ e.deferred)
            /\ e.stored => (cacheTimestamps[e.key] = dateNow /\ cache[e.key] = e.val)
    /\ (lastStep.done.op \in {"getMetrics", "getAll"} /\ ~lastStep.done.mHit)
         => /\ lastStep.done.mState = "ok"
            /\ lastStep.done.mStoredAt = lastStep.done.mDoneAt

\* C4: a getAll() one of whose source reads failed still returns, with the
\* failed source's default value in the place of the failed source.
GetAllSurvivesSourceFailure ==
    lastStep.done.op = "getAll"
        => /\ lastStep.done.aState = "ok"
           /\ \A v \in {lastStep.done.sessions, lastStep.done.crons, lastStep.done.memory} :
                /\ v.present
                /\ v.key \in lastStep.done.failed => Body(v) = DefaultOf(v.key)
           /\ lastStep.done.metrics.present

\* C5: no accessor and no getAll() raises: no lookup ends in an exception
\* and no call is rejected.
AggregatorNeverRaises ==
    /\ \A e \in LastEvents : ~e.threw
    /\ lastStep.done.mState # "threw"
    /\ lastStep.done.aState # "threw"

\* C6: with no root resolved isAvailable is false, and whatever getSessions,
\* getCrons and getMemory return, called alone or by getAll(), is the empty
\* value of the source.
NoRootYieldsDefaults ==
    openclawRoot = "none"
        => /\ ~isAvailable
           /\ \A e \in LastEvents :
                e.key # "metrics"
                    => (~e.threw /\ e.val.present /\ Body(e.val) = DefaultOf(e.key))
           /\ lastStep.done.op = "getAll"
                => /\ lastStep.done.aState = "ok"
                   /\ \A v \in {lastStep.done.sessions, lastStep.done.crons,
                                 lastStep.done.memory} :
                        v.present /\ Body(v) = DefaultOf(v.key)

\* with no root resolved, a getAll() returned after the three had been
\* called alone
NoRootGetAllReturned ==
    /\ openclawRoot = "none"
    /\ lastStep.done.op = "getAll" /\ lastStep.done.aState = "ok"
    /\ lastStep.done.start > 1

(***************************************************************************)
(* Properties of the tail reader                                           *)
(***************************************************************************)

\* every segment of the file as a line
WholeFileLines(f) ==
    [i \in 1..Len(f) |-> [line |-> i, len |-> f[i].len, tw |-> f[i].tw, partial |-> FALSE]]

\* the naive reference: read the whole file, split on line breaks, drop the
\* blank lines, keep the last n
NaiveTail(f, n) ==
    LET kept == SelectSeq(WholeFileLines(f), LAMBDA p : p.len # p.tw)
        k == Min(n, Len(kept))
    IN  SubSeq(kept, Len(kept) - k + 1, Len(kept))

\* C7: for every file smaller than the small-file threshold (a 0-byte file
\* included, whose result is empty) and every N, readLastLines returns
\* exactly what the naive reference returns.
TailEqualsNaiveReference ==
    (tPc = "done" /\ tFault = "none" /\ FileSize(tFile) < SmallFileLimit)
        => /\ tResult = NaiveTail(tFile, tLineCount)
           /\ (FileSize(tFile) = 0 => tResult = <<>>)

\* C8: for every file and every desiredLines >= 0, readLastLines returns at
\* most desiredLines lines, none of them blank, in file order.
TailAtMostDesiredLines ==
    tPc = "done"
        => /\ Len(tResult) <= tLineCount
           /\ \A i \in 1..Len(tResult) : tResult[i].len # tResult[i].tw
           /\ \A i, j \in 1..Len(tResult) : i < j => tResult[i].line < tResult[j].line

\* C9: for a file at or above the small-file threshold, readLastLines issues
\* one read, of min(fileSize, N*2000) bytes, that ends at fileSize (it
\* starts at fileSize minus that length), and reads nothing else.
TailLargeReadsOneBoundedRange ==
    (tPc = "done" /\ FileSize(tFile) >= SmallFileLimit)
        => /\ Len(tReads) <= 1
           /\ tFault = "none" => Len(tReads) = 1
           /\ \A i \in 1..Len(tReads) :
                /\ ~tReads[i].whole
                /\ tReads[i].len = Min(FileSize(tFile), tLineCount * 2000)
                /\ tReads[i].pos + tReads[i].len = FileSize(tFile)
                /\ tReads[i].pos >= 0

\* a large file was read through a window that is shorter than the file and
\* cuts a line
TailLargeWindowRead ==
    /\ tPc = "done" /\ FileSize(tFile) >= SmallFileLimit
    /\ Len(tReads) = 1 /\ tReads[1].pos > 0
    /\ tResult # <<>> /\ tResult[1].partial

(***************************************************************************)
(* Properties of getSessions                                               *)
(***************************************************************************)

\* the status and progress the claim gives a run
RunRecordAsClaimed(run, rec) ==
    /\ ~run.outcome.present
        => rec.status = "running" /\ rec.progress = [num |-> 1, den |-> 2]
    /\ (run.outcome.present /\ run.outcome.status = "ok")
        => rec.status = "completed" /\ rec.progress = [num |-> 1, den |-> 1]
    /\ (run.outcome.present /\ run.outcome.status # "ok")
        => rec.status = "error" /\ rec.progress = [num |-> 0, den |-> 1]

\* C10: the SubagentRunRecord of a run with no outcome has status "running"
\* and progress exactly 0.5; with outcome.status "ok" it has status
\* "completed" and progress 1.0; with any other outcome it has status
\* "error" and progress 0.
RunStatusAndProgress ==
    /\ \A i \in 1..Len(subagentList) :
            RunRecordAsClaimed(sRuns[subagentList[i].id], subagentList[i])
    /\ sPc = "done" =>
            \A i \in 1..Len(sResult.subagents) :
                RunRecordAsClaimed(sRuns[sResult.subagents[i].id], sResult.subagents[i])

\* a returned result holds the record of a running run and the record of a
\* run whose outcome carries no status
RunStatusBothKinds ==
    /\ sPc = "done"
    /\ \E i, j \in 1..Len(sResult.subagents) :
        /\ ~sRuns[i].outcome.present /\ sResult.subagents[i].status = "running"
        /\ sRuns[j].outcome.present /\ sRuns[j].outcome.status = Undefined
        /\ sResult.subagents[j].status = "error"

(***************************************************************************)
(* Properties of the owner of a job                                        *)
(***************************************************************************)

\* the jobs read so far with the records made of them
OwnedJobs ==
    { [job |-> cronJobs[i], rec |-> cronReads[r][i]] :
        r \in 1..Len(cronReads), i \in 1..Len(cronJobs) }

\* C11: a job that carries an explicit owner (agentId) gets that owner,
\* whatever keywords its name contains.
ExplicitOwnerTakesPrecedence ==
    \A o \in OwnedJobs : o.job.agentId # NoAgentId => o.rec.owner = o.job.agentId

\* C12: any two jobs with the same name, of the same read or of two reads,
\* get the same owner.
SameNameSameOwner ==
    \A a, b \in OwnedJobs : a.rec.name = b.rec.name => a.rec.owner = b.rec.owner

\* C12, amended: any two jobs with the same name and the same explicit
\* owner (or both with none), of the same read or of two reads, get the
\* same owner.
SameNameAndAgentIdSameOwner ==
    \A a, b \in OwnedJobs :
        (a.job.name = b.job.name /\ a.job.agentId = b.job.agentId)
            => a.rec.owner = b.rec.owner

\* two reads were made of a file with two jobs of one name and one explicit
\* owner that differ otherwise, the name holding no keyword
TwoReadsOfTwinJobs ==
    /\ cronPc = 2 /\ Len(cronJobs) = 2
    /\ cronJobs[1].name = cronJobs[2].name /\ cronJobs[1].agentId = cronJobs[2].agentId
    /\ cronJobs[1].agentId # NoAgentId
    /\ cronJobs[1].enabled # cronJobs[2].enabled
    /\ cronReads[1][1].owner = cronJobs[1].agentId
    /\ cronReads[2][2].owner = cronReads[1][1].owner


(***************************************************************************)
(* Properties of the main stream pass                                      *)
(***************************************************************************)

\* the files the pass scans: the session files among the first 15
Scanned == { i \in 1..Min(Len(sMain.files), MaxMainFiles) : sMain.files[i].header = "session" }

RECURSIVE SumOver(_, _)
SumOver(f, S) ==
    IF S = {} THEN 0
    ELSE LET i == CHOOSE j \in S : TRUE IN f[i] + SumOver(f, S \ {i})

\* the scanned file with the greatest timestamp, the earliest scanned of them
GreatestScanned ==
    CHOOSE i \in Scanned :
        /\ \A j \in Scanned : sMain.files[j].lastTimestamp <= sMain.files[i].lastTimestamp
        /\ \A j \in Scanned : sMain.files[j].lastTimestamp = sMain.files[i].lastTimestamp => i <= j

MainPassOver == sPc = "runs" /\ sMain.state = "dir"

\* the counters of the lead are the sums over the scanned files
LeadCountersAreSums ==
    MainPassOver =>
        /\ agentData["kira"].tokensUsed =
             SumOver([i \in Scanned |-> sMain.files[i].totalTokensIn + sMain.files[i].totalTokensOut],
                     Scanned)
        /\ agentData["kira"].apiCalls = SumOver([i \in Scanned |-> sMain.files[i].apiCalls], Scanned)

\* status, task and last-seen of the lead are those of one given scanned file
LeadTakenFrom(i) ==
    LET f == sMain.files[i]
    IN  /\ agentData["kira"].lastSeen = f.lastTimestamp
        /\ agentData["kira"].status = inferStatus(f.lastTimestamp, sNow)
        /\ agentData["kira"].currentTask.text =
             (IF f.lastTask # "" THEN f.lastTask ELSE "Main session")

\* C18: the main stream pass reads at most the 15 most recently modified
\* files; the lead's counters are the sums over the scanned files, and its
\* status, task and last-seen come from the scanned file with the greatest
\* timestamp, a later scanned file replacing them only when its timestamp
\* is strictly greater, so that on a tie the earlier scanned file is kept
LeadFromGreatestTimestamp ==
    /\ (sPc = "main" => sIdx <= MaxMainFiles + 1)
    /\ LeadCountersAreSums
    /\ (MainPassOver /\ Scanned # {} => LeadTakenFrom(GreatestScanned))

\* the same, when some scanned file carries a timestamp
LeadFromGreatestTimestampWhenSomeHasOne ==
    /\ (sPc = "main" => sIdx <= MaxMainFiles + 1)
    /\ LeadCountersAreSums
    /\ (MainPassOver /\ (\E i \in Scanned : sMain.files[i].lastTimestamp # 0)
            => LeadTakenFrom(GreatestScanned))

\* a listing longer than the cap has been scanned, two files tied for newest
LongListingScanned ==
    /\ MainPassOver
    /\ Len(sMain.files) > MaxMainFiles
    /\ \E i, j \in Scanned : i < j /\ sMain.files[i].lastTimestamp = sMain.files[j].lastTimestamp
                              /\ sMain.files[i].lastTimestamp # 0


(***************************************************************************)
(* Properties of the directory pass                                        *)
(***************************************************************************)

\* the step of the directory pass over a directory that holds a file
DirFileStep == sPc = "dirs" /\ sIdx <= Len(AgentDirs) /\ sDirs[sIdx].present /\ sIdx' = sIdx + 1

\* the counters a record holds, none when there is no record
TokensOf(rec) == IF rec.present THEN rec.tokensUsed ELSE 0

CallsOf(rec) == IF rec.present THEN rec.apiCalls ELSE 0

\* status and task are overwritten only by a strictly newer file
DirOverwritesOnlyWhenNewer ==
    DirFileStep =>
        LET id == AgentDirs[sIdx].id
            parsed == sDirs[sIdx].file
        IN  agentData[id].present /\ ~(parsed.lastTimestamp > agentData[id].lastSeen)
                => /\ agentData'[id].status = agentData[id].status
                   /\ agentData'[id].currentTask = agentData[id].currentTask

\* the counters of the file are added to those of the record
DirAddsCounters ==
    DirFileStep =>
        LET id == AgentDirs[sIdx].id
            parsed == sDirs[sIdx].file
        IN  /\ TokensOf(agentData'[id]) =
                 TokensOf(agentData[id]) + parsed.totalTokensIn + parsed.totalTokensOut
            /\ CallsOf(agentData'[id]) = CallsOf(agentData[id]) + parsed.apiCalls

\* C13: in the directory pass the token and call counters of the newest
\* file are always added to whatever counters the identity's record holds,
\* while status and task are overwritten only when the file's timestamp is
\* strictly greater than the recorded one
DirPassAddsCountersAlways == [][DirAddsCounters /\ DirOverwritesOnlyWhenNewer]_vars

\* the second half alone
DirPassOverwritesOnlyWhenNewer == [][DirOverwritesOnlyWhenNewer]_vars


(***************************************************************************)
(* Properties of the result of getSessions                                 *)
(***************************************************************************)

\* some pass of this read met activity of the identity: a scanned main
\* session file for the lead, a labelled run or a directory file for another
Observed(id) ==
    IF id = "kira" THEN sMain.state = "dir" /\ Scanned # {}
    ELSE \/ \E i \in 1..Len(sRuns) :
               /\ sRuns[i].kind = "ok" /\ sRuns[i].label # <<>>
               /\ labelToAgent(sRuns[i].label).id = id
         \/ \E d \in 1..Len(AgentDirs) : AgentDirs[d].id = id /\ sDirs[d].present

\* the six records of the roster, in roster order, merged or default
SixRecords(agents) ==
    /\ Len(agents) = Len(AgentOrder)
    /\ \A i \in 1..Len(AgentOrder) :
         LET id == AgentOrder[i]
         IN  /\ agents[i].id = id
             /\ Observed(id) => agents[i] = agentData[id]
             /\ ~Observed(id) =>
                  /\ agents[i].status = "offline"
                  /\ agents[i].currentTask.text = "No recent activity"
                  /\ agents[i].lastSeen = 0
                  /\ agents[i].tokensUsed = 0
                  /\ agents[i].apiCalls = 0

\* nothing the read met makes it give up or leaves the lead half made
ReadIsClean ==
    /\ \A i \in 1..Len(sRuns) : sRuns[i].kind = "ok"
    /\ sMain.state # "notdir"
    /\ sMain.state = "dir" => Scanned # {}

\* C15: with the root available every result of getSessions() holds exactly
\* six AgentRecords, in the order kira, hunter, forge, echo, atlas,
\* sentinel: the merged record of an identity the read observed, else the
\* default record (offline, "No recent activity", never seen, zero counters)
AlwaysSixAgentRecords == sPc = "done" => SixRecords(sResult.agents)

\* the same of the reads that meet no malformed run, a main sessions
\* directory that can be listed, and in it a session file if it exists
CleanReadSixAgentRecords == sPc = "done" /\ ReadIsClean => SixRecords(sResult.agents)

\* a read of an empty main sessions directory is over
EmptyMainDirRead ==
    /\ sPc = "done" /\ sMain.state = "dir" /\ Scanned = {}
    /\ \A i \in 1..Len(sRuns) : sRuns[i].kind = "ok"
    /\ sResult.agents[1].status = Undefined


(***************************************************************************)
(* Properties of the run registry pass                                     *)
(***************************************************************************)

\* the step of the run registry pass over the run at sIdx
RunStep == sPc = "runs" /\ sIdx <= Len(sRuns) /\ sIdx' = sIdx + 1

Roster == { AgentOrder[i] : i \in 1..Len(AgentOrder) }

\* the identity that owns the run, if one of the roster does
OwnerOf(run) == labelToAgent(run.label).id

\* the run may update the record of its owner
MayUpdate(run, existing) ==
    \/ IsRunning(run)
    \/ ~existing.present
    \/ RunLastSeen(run, sNow) > existing.lastSeen

RunStepAsClaimed ==
    RunStep =>
        LET run == sRuns[sIdx]
            owner == OwnerOf(run)
            updates == /\ owner \in Roster \ {"kira"} /\ run.label # <<>>
                       /\ MayUpdate(run, agentData[owner])
        IN  /\ agentData'["kira"] = agentData["kira"]
            /\ \A id \in Roster \ {owner} : agentData'[id] = agentData[id]
            /\ ~updates /\ owner \in Roster => agentData'[owner] = agentData[owner]
            /\ updates =>
                 /\ agentData'[owner].present
                 /\ agentData'[owner].lastSeen = RunLastSeen(run, sNow)
                 /\ agentData'[owner].currentTask.label = run.label
                 /\ agentData'[owner].status =
                      (IF IsRunning(run) THEN "active"
                       ELSE IF RunStatus(run) = "completed" THEN "idle"
                       ELSE inferStatus(RunLastSeen(run, sNow), sNow))

\* C16: the run registry pass applies the runs in registry order; a run
\* updates an AgentRecord only of its owning identity, only if that is not
\* the lead and the run has a label; a running run always overwrites, any
\* other only if its effective timestamp is newer than the recorded one or
\* nothing is recorded; the record of the lead is never changed by the pass
RunPassNewestWins == [][RunStepAsClaimed]_vars

\* an older finished run came after a newer one of the same owner, and the
\* lead had a record while the pass ran
OlderRunLeftRecordAlone ==
    /\ sPc = "runs" /\ sIdx = 3 /\ Len(sRuns) = 2
    /\ agentData["kira"].present
    /\ OwnerOf(sRuns[1]) = "hunter" /\ OwnerOf(sRuns[2]) = "hunter"
    /\ ~IsRunning(sRuns[1]) /\ ~IsRunning(sRuns[2])
    /\ RunLastSeen(sRuns[2], sNow) < RunLastSeen(sRuns[1], sNow)
    /\ agentData["hunter"].lastSeen = RunLastSeen(sRuns[1], sNow)


(***************************************************************************)
(* Properties of the subagents list                                        *)
(***************************************************************************)

\* the positions of the well-formed entries of the registry, in order
WellFormed == { i \in 1..Len(sRuns) : sRuns[i].kind = "ok" }

RECURSIVE RecordsFrom(_)
\* the SubagentRunRecords of the well-formed entries from position i on
RecordsFrom(i) ==
    IF i > Len(sRuns) THEN <<>>
    ELSE (IF i \in WellFormed THEN <<SubagentEntry(i, sRuns[i], sNow)>> ELSE <<>>)
             \o RecordsFrom(i + 1)

\* C17: every run of the registry is emitted as a SubagentRunRecord,
\* whether or not it updated an AgentRecord, in registry order, capped at
\* 20: the subagents list of a result is the records of the first
\* min(n, 20) runs
SubagentsAreFirstTwentyRuns ==
    sPc = "done" => sResult.subagents = Take(RecordsFrom(1), MaxSubagents)

\* the same of the reads that do not end in the catch
SubagentsAreFirstTwentyRunsUnlessCaught ==
    sPc = "done" /\ WellFormed = 1..Len(sRuns) /\ sMain.state # "notdir"
        => sResult.subagents = Take(RecordsFrom(1), MaxSubagents)

\* a registry of more than 20 runs has been read
LongRegistryRead ==
    /\ sPc = "done" /\ Len(sRuns) > MaxSubagents
    /\ Len(sResult.subagents) = MaxSubagents
    /\ \E i \in 1..MaxSubagents : ~RunWrites(sRuns[i], labelToAgent(sRuns[i].label), NoAgent, sNow)

\* C20: one malformed entry of the registry (a null entry, a task that is
\* no text) is skipped by itself: the result is the one the read would
\* give were the entry not there
MalformedRunSkippedAlone ==
    (/\ sPc = "done" /\ Cardinality(WellFormed) = Len(sRuns) - 1
     /\ sMain.state # "notdir" /\ (sMain.state = "dir" => Scanned # {}))
        => /\ SixRecords(sResult.agents)
           /\ sResult.subagents = Take(RecordsFrom(1), MaxSubagents)


(***************************************************************************)
(* Properties of the uptime estimate                                       *)
(***************************************************************************)

\* there is no boot file: no directory, or none in it
NoBootFile == upDir.state # "dir" \/ BootFiles(upDir) = {}

\* the name of the newest boot file gives no valid instant
NewestBootMalformed ==
    ~NoBootFile /\ NewestBoot(upDir).stamp \in {"none", "invalid", "rolls"}

\* C14: getMetrics reports the uptime "unknown", and raises no exception,
\* when there is no boot file (the sessions directory has none, is empty or
\* is absent) or when the name of the newest boot file has not the shape of
\* a timestamp or encodes no valid instant
UptimeUnknownWithoutException ==
    upPc = "done" /\ (NoBootFile \/ NewestBootMalformed)
        => ~upResult.threw /\ upResult.uptime = UnknownUptime

\* the same with the directory there, and the dates no calendar holds left
\* to the engine
UptimeUnknownWhenListed ==
    (/\ upPc = "done" /\ upDir.state # "absent"
     /\ \/ NoBootFile
        \/ ~NoBootFile /\ NewestBoot(upDir).stamp \in {"none", "invalid"})
        => ~upResult.threw /\ upResult.uptime = UnknownUptime

\* the block has met a newest boot file with a malformed name among others
MalformedNewestBootMet ==
    /\ upPc = "done" /\ ~NoBootFile
    /\ NewestBoot(upDir).stamp = "invalid"
    /\ \E f \in BootFiles(upDir) : f.stamp = "valid"
    /\ upResult.uptime = UnknownUptime


(***************************************************************************)
(* Properties of labelToAgent                                              *)
(***************************************************************************)

\* the text of a label before its first '-': the one beginning of the
\* label that holds no '-' and ends at a '-' or at the end of the label
PrefixOf(label) ==
    LET n == CHOOSE k \in 0..Len(label) :
                 /\ \A j \in 1..k : label[j] # "-"
                 /\ (k = Len(label) \/ label[k + 1] = "-")
    IN  SubSeq(label, 1, n)

\* the identity the roster holds under a name, none if it holds none
RosterLookup(name) ==
    IF \E key \in DOMAIN AGENT_MAP : key = name THEN InfoOf(name) ELSE NullInfo

LeadIdentity == InfoOf(<<>>)

\* C19: labelToAgent returns the lead identity for an empty label; for any
\* other label it takes the text before the first '-', lowercases it, and
\* returns the roster identity with that name, or none when the roster has
\* no identity with that name
LabelResolvedInRoster ==
    lbPc = "done" =>
        lbResult = (IF lbLabel = <<>> THEN LeadIdentity
                    ELSE RosterLookup(ToLowerCase(PrefixOf(lbLabel))))

\* the same of the labels whose first part names no property every object has
LabelResolvedInRosterUnlessInherited ==
    lbPc = "done" /\ ToLowerCase(PrefixOf(lbLabel)) \notin InheritedKeys =>
        lbResult = (IF lbLabel = <<>> THEN LeadIdentity
                    ELSE RosterLookup(ToLowerCase(PrefixOf(lbLabel))))


(***************************************************************************)
(* Properties of the keyword groups and of the set of owners               *)
(***************************************************************************)

\* the keyword groups in the order of the claim
KeywordGroups ==
    << [words |-> {<<"f", "o", "r", "g", "e">>}, owner |-> "forge"],
       [words |-> {<<"h", "u", "n", "t", "e", "r">>, <<"r", "e", "v", "e", "n", "u", "e">>}, owner |-> "hunter"],
       [words |-> {<<"e", "c", "h", "o">>, <<"c", "o", "n", "t", "e", "n", "t">>, <<"m", "a", "r", "k", "e", "t", "i", "n", "g">>}, owner |-> "echo"],
       [words |-> {<<"a", "t", "l", "a", "s">>, <<"s", "t", "a", "n", "d", "u", "p">>, <<"f", "l", "e", "e", "t">>}, owner |-> "atlas"],
       [words |-> {<<"s", "e", "n", "t", "i", "n", "e", "l">>, <<"s", "e", "c", "u", "r", "i", "t", "y">>, <<"a", "u", "d", "i", "t">>}, owner |-> "sentinel"],
       [words |-> {<<"b", "a", "c", "k", "u", "p">>, <<"g", "i", "t">>}, owner |-> "forge"],
       [words |-> {<<"m", "o", "r", "n", "i", "n", "g">>, <<"i", "n", "s", "p", "i", "r", "a", "t", "i", "o", "n">>}, owner |-> "kira"] >>

\* the groups of which some keyword occurs in the name, whatever its case
MatchingGroups(name) ==
    { g \in 1..Len(KeywordGroups) :
        \E w \in KeywordGroups[g].words : Includes(ToLowerCase(name), w) }

FirstOf(S) == CHOOSE g \in S : \A h \in S : g <= h

\* C24: the name of a job is tested, whatever its case, by substring
\* against the keyword groups in one fixed order, and the first group that
\* matches gives the owner; a job whose name matches no group and that
\* has no explicit owner gets the lead
FirstKeywordGroupWins ==
    \A o \in OwnedJobs :
        LET M == MatchingGroups(o.job.name)
        IN  /\ M # {} => o.rec.owner = KeywordGroups[FirstOf(M)].owner
            /\ M = {} /\ o.job.agentId = NoAgentId => o.rec.owner = "kira"

\* a read met a name in capitals that two groups of two owners match, and a
\* name no group matches
TwoGroupsMatchedOneName ==
    \E a, b \in OwnedJobs :
        /\ Cardinality(MatchingGroups(a.job.name)) >= 2
        /\ a.job.name # ToLowerCase(a.job.name)
        /\ \E g, h \in MatchingGroups(a.job.name) : KeywordGroups[g].owner # KeywordGroups[h].owner
        /\ MatchingGroups(b.job.name) = {} /\ b.job.agentId = NoAgentId
        /\ b.rec.owner = "kira"

\* C25: the owner of every CronJobRecord is one of the six identities of
\* the roster, whatever the job-scheduler document holds
OwnerIsRosterIdentity ==
    \A o \in OwnedJobs : o.rec.owner \in { AgentOrder[i] : i \in 1..Len(AgentOrder) }

\* the same of the jobs whose name holds a keyword or that have no agentId
OwnerIsRosterIdentityByKeywordOrDefault ==
    \A o \in OwnedJobs :
        MatchingGroups(o.job.name) # {} \/ o.job.agentId = NoAgentId
            => o.rec.owner \in { AgentOrder[i] : i \in 1..Len(AgentOrder) }


(***************************************************************************)
(* Properties of the status of an AgentRecord                              *)
(***************************************************************************)

StatusValues == {"active", "idle", "offline"}

\* C26: every AgentRecord of every result of getSessions() has one of the
\* statuses active, idle, offline, whatever the sources hold, a main
\* sessions directory without a usable session file included
EveryStatusEnumerated ==
    sPc = "done" => \A i \in 1..Len(sResult.agents) : sResult.agents[i].status \in StatusValues

\* the same of the records of the other identities than the lead
EveryFleetStatusEnumerated ==
    sPc = "done" =>
        \A i \in 1..Len(sResult.agents) :
            sResult.agents[i].id # "kira" => sResult.agents[i].status \in StatusValues

\* no source holds a timestamp later than the time of the read
NoLaterTimestamp ==
    /\ \A i \in 1..Len(sRuns) : sRuns[i].createdAt <= sNow /\ sRuns[i].endedAt <= sNow
    /\ \A d \in 1..Len(AgentDirs) : sDirs[d].file.lastTimestamp <= sNow
    /\ \A i \in 1..Len(sMain.files) : sMain.files[i].lastTimestamp <= sNow

\* the identities other than the lead that own a running run
RunningOwners ==
    { x \in Roster \ {"kira"} :
        \E i \in 1..Len(sRuns) :
            /\ sRuns[i].kind = "ok" /\ IsRunning(sRuns[i])
            /\ sRuns[i].label # <<>> /\ OwnerOf(sRuns[i]) = x }

ActiveIn(agents, x) == \E j \in 1..Len(agents) : agents[j].id = x /\ agents[j].status = "active"

\* C30: if the registry holds a running run whose label resolves to an
\* identity X other than the lead, and no source holds a timestamp later
\* than the time of the read, the AgentRecord of X in the result is
\* active, whatever the order of the runs and whatever the directory pass
\* finds for X
RunningOwnerIsActive ==
    sPc = "done" /\ NoLaterTimestamp => \A x \in RunningOwners : ActiveIn(sResult.agents, x)

\* the same of the reads that do not end in the catch
RunningOwnerIsActiveUnlessCaught ==
    (/\ sPc = "done" /\ NoLaterTimestamp
     /\ \A i \in 1..Len(sRuns) : sRuns[i].kind = "ok"
     /\ sMain.state # "notdir")
        => \A x \in RunningOwners : ActiveIn(sResult.agents, x)

\* the same of the reads that do not end in the catch, the running runs
\* having no end time
RunningOwnerIsActiveUnlessEnded ==
    (/\ sPc = "done" /\ NoLaterTimestamp
     /\ \A i \in 1..Len(sRuns) : sRuns[i].kind = "ok" /\ (IsRunning(sRuns[i]) => sRuns[i].endedAt = 0)
     /\ sMain.state # "notdir")
        => \A x \in RunningOwners : ActiveIn(sResult.agents, x)


(***************************************************************************)
(* Properties of the path resolver                                         *)
(***************************************************************************)

\* the candidates in the order of the claim, each with whether it exists
RootCandidates(h) ==
    << [origin |-> "standard", exists |-> h.standard],
       [origin |-> "env", exists |-> h.envHome = "there"],
       [origin |-> "config", exists |-> h.config = "there"] >>

FirstExisting(c) ==
    IF \E i \in 1..Len(c) : c[i].exists
    THEN c[CHOOSE i \in 1..Len(c) : c[i].exists /\ \A j \in 1..(i - 1) : ~c[j].exists].origin
    ELSE "none"

\* C22: detectOpenClawRoot tries the conventional location, the
\* environment variable and the saved configuration in that order and
\* returns the first that exists on disk; it returns none, and raises
\* nothing, when none exists, a missing or malformed configuration
\* included; and detectWorkspace(none) returns none
FirstExistingCandidate ==
    /\ fnPc \in {"root", "detected"} =>
         /\ ~fnResult.root.raised
         /\ fnResult.root.found = FirstExisting(RootCandidates(fnArgs))
    /\ fnPc = "detected" /\ fnResult.root.found = "none" =>
         fnResult.workspace.found = "none" /\ ~fnResult.workspace.raised

\* the conventional location was missing while the two others existed
LaterCandidatesExisted ==
    /\ fnPc = "detected" /\ ~fnArgs.standard
    /\ fnArgs.envHome = "there" /\ fnArgs.config = "there"
    /\ fnResult.root.found = "env"

\* no candidate existed, the configuration being malformed, while a
\* workspace could have been found
NoCandidateExisted ==
    /\ fnPc = "detected" /\ fnArgs.config = "malformed" /\ fnArgs.envWs = "there"
    /\ fnResult.root.found = "none" /\ fnResult.workspace.found = "none"


(***************************************************************************)
(* Properties of the daily notes                                           *)
(***************************************************************************)

\* the seven greatest names of the shape YYYY-MM-DD*.md
GreatestShaped ==
    { f \in fnArgs.names :
        /\ DailyShaped(f)
        /\ Cardinality({ g \in fnArgs.names : DailyShaped(g) /\ NameBefore(f, g) }) < MaxDaily }

\* the date key of an entry comes before that of another, in the order of texts
KeyBefore(a, b) == a.day < b.day \/ (a.day = b.day /\ TextBefore(a.rest, b.rest))

\* the file an entry was made of
FileOf(entry) ==
    CHOOSE f \in GreatestShaped : entry.date = [day |-> f.day, rest |-> ReplaceFirst(f.rest, <<".", "m", "d">>)]

\* at most 7 entries, each of one of the 7 greatest shaped names, each
\* with an excerpt of at most 2000 characters
DailyBoundedAndShaped ==
    /\ Len(fnResult.daily) <= MaxDaily
    /\ \A i \in 1..Len(fnResult.daily) :
         /\ \E f \in GreatestShaped :
              fnResult.daily[i].date = [day |-> f.day, rest |-> ReplaceFirst(f.rest, <<".", "m", "d">>)]
         /\ fnResult.daily[i].content <= DailyExcerpt

\* C23: the daily list has at most 7 entries, is ordered by date key
\* strictly descending, holds only files of the shape YYYY-MM-DD*.md that
\* are among the 7 greatest such names of the directory, and every excerpt
\* has at most 2000 characters
DailyDescendingByDateKey ==
    fnPc = "listed" =>
        /\ DailyBoundedAndShaped
        /\ \A i, j \in 1..Len(fnResult.daily) :
             i < j => KeyBefore(fnResult.daily[j].date, fnResult.daily[i].date)

\* C23, amended: the same, the list being ordered by file name strictly
\* descending, and so by date never ascending
DailyDescendingByFileName ==
    fnPc = "listed" =>
        /\ DailyBoundedAndShaped
        /\ \A i, j \in 1..Len(fnResult.daily) :
             i < j => /\ NameBefore(FileOf(fnResult.daily[j]), FileOf(fnResult.daily[i]))
                      /\ fnResult.daily[j].date.day <= fnResult.daily[i].date.day

\* a directory of more than 7 dated notes and other files was listed: two
\* notes of one day were kept, a note was skipped, an excerpt was cut
LongDailyListed ==
    /\ fnPc = "listed"
    /\ Cardinality({ f \in fnArgs.names : DailyShaped(f) }) > MaxDaily
    /\ \E f \in fnArgs.names : ~DailyShaped(f)
    /\ \E f \in GreatestShaped : fnArgs.size[f] = 0
    /\ \E i, j \in 1..Len(fnResult.daily) :
         i < j /\ fnResult.daily[i].date.day = fnResult.daily[j].date.day
    /\ \E i \in 1..Len(fnResult.daily) : fnResult.daily[i].size > fnResult.daily[i].content


(***************************************************************************)
(* Properties of the session event parser                                  *)
(***************************************************************************)

\* the lines that parse, and among them the assistant turns
Parseable == { i \in 1..Len(fnArgs) : fnArgs[i].kind # "garbage" }

AssistantTurns == { i \in Parseable : fnArgs[i].kind = "assistant" }

AssistantTurnsWithContent ==
    { i \in AssistantTurns : fnArgs[i].content \in {"text", "blocks"} }

MaxTimestamp ==
    IF \E i \in Parseable : fnArgs[i].timestamp # 0
    THEN fnArgs[CHOOSE i \in Parseable :
                  \A j \in Parseable : fnArgs[j].timestamp <= fnArgs[i].timestamp].timestamp
    ELSE 0

\* the last model a line of the given lines names
LastModelOf(S) ==
    LET naming == { i \in S : fnArgs[i].model # "" }
    IN  IF naming = {} THEN ""
        ELSE fnArgs[CHOOSE i \in naming : \A j \in naming : j <= i].model

\* the summary is the one the given turns and model lines give
SummaryOver(turns, modelLines) ==
    /\ fnResult.lastTimestamp = MaxTimestamp
    /\ fnResult.totalTokensIn =
         SumOver([i \in turns |-> fnArgs[i].usage.input + fnArgs[i].usage.cacheRead], turns)
    /\ fnResult.totalTokensOut = SumOver([i \in turns |-> fnArgs[i].usage.output], turns)
    /\ fnResult.apiCalls = Cardinality(turns)
    /\ fnResult.modelUsed = LastModelOf(modelLines)

\* C21: _parseSessionTail skips every line that does not parse and goes
\* on; its summary depends on the parseable lines only: lastTimestamp is
\* their greatest timestamp, the token sums are the sums of input plus
\* cache-read and of output tokens over the assistant turns, the call
\* count is the number of assistant turns, the model is the last one named
\* by an assistant turn or a model-change event (a model-snapshot event
\* taken for one)
SummaryOverAssistantTurns ==
    fnPc = "parsed" =>
        SummaryOver(AssistantTurns,
                    { i \in Parseable :
                        fnArgs[i].kind \in {"assistant", "model_change", "model-snapshot"} })

\* the same over the assistant turns that have content, the model-snapshot
\* events counted with the model changes, no turn holding a null block
SummaryOverTurnsWithContent ==
    fnPc = "parsed" /\ (\A i \in Parseable : fnArgs[i].content # "badblocks") =>
        SummaryOver(AssistantTurnsWithContent,
                    AssistantTurnsWithContent
                        \cup { i \in Parseable : fnArgs[i].kind \in {"model_change", "model-snapshot"} })

(***************************************************************************)
(* The snapshot getAll returns.                                            *)
(***************************************************************************)
\* the cron counters of the metrics of result r are those of its crons list
CronCountersAgree(r) ==
    LET m == MetricsBody(r.metrics.fromSessions, r.metrics.fromCrons)
    IN  /\ m.totalCrons = Len(Body(r.crons))
        /\ m.activeCrons = Len(SelectSeq(Body(r.crons), LAMBDA c : c.enabled))
        /\ m.failedCrons = Len(SelectSeq(Body(r.crons), LAMBDA c : c.lastStatus = "error"))

\* the session counters of the metrics of result r are those of its agents
\* and subagents
SessionCountersAgree(r) ==
    LET m == MetricsBody(r.metrics.fromSessions, r.metrics.fromCrons)
    IN  /\ m.tokensToday = SumTokens(Body(r.sessions).agents)
        /\ m.activeAgents =
             Len(SelectSeq(Body(r.sessions).agents, LAMBDA a : a.status = "active"))
        /\ m.activeSubagents =
             Len(SelectSeq(Body(r.sessions).subagents, LAMBDA x : x.status = "running"))

\* a getAll has just returned its result
GetAllReturned == lastStep.done.op = "getAll" /\ lastStep.done.aState = "ok"

\* no step of another call of the provider fell between its call and its
\* return, and less than a TTL passed between the two
RanAloneWithinTTL ==
    lastStep.done.alone /\ (dateNow - lastStep.done.startAt) < CacheTTL

\* C27: the result of a getAll that runs with no other provider call
\* interleaved and within less than 5000 ms is a consistent snapshot: its
\* metrics are computed from the agents, subagents and crons of the same
\* result (totalCrons is the number of crons returned, activeAgents the
\* number of returned agents that are active, tokensToday the sum of
\* tokensUsed over the returned agents)
LoneGetAllIsConsistent ==
    (GetAllReturned /\ RanAloneWithinTTL)
        => /\ CronCountersAgree(lastStep.done)
           /\ SessionCountersAgree(lastStep.done)
           /\ lastStep.done.metrics.fromSessions = lastStep.done.sessions
           /\ lastStep.done.metrics.fromCrons = lastStep.done.crons

\* a getAll returned alone, a millisecond short of a TTL after its call,
\* the files rewritten since it read them
LoneGetAllOverRewrittenDisk ==
    /\ GetAllReturned /\ RanAloneWithinTTL
    /\ dateNow - lastStep.done.startAt = CacheTTL - 1
    /\ lastStep.done.crons.kind = "data"
    /\ disk.ver > lastStep.done.crons.ver

\* C28: whatever call starts while a getAll is suspended, and whatever is
\* written to the disk between its reads, the cron counters of the metrics
\* of its result (totalCrons, activeCrons, failedCrons) agree with the
\* crons list of that result
GetAllCronCountersAgree ==
    (GetAllReturned /\ ~lastStep.done.alone) => CronCountersAgree(lastStep.done)

(***************************************************************************)
(* The age of what getMetrics returns.                                     *)
(***************************************************************************)
\* a call of getMetrics has just returned a value
GetMetricsReturned == lastStep.done.op = "getMetrics" /\ lastStep.done.mState = "ok"

\* the instants at which the sessions and the crons behind metrics value v
\* were read from the disk
ReadInstants(v) == {v.sessionsAt, v.cronsAt}

\* C29: every value getMetrics returns is derived from session and cron
\* data read from the disk less than 5000 ms (one TTL) before the moment
\* it is returned
MetricsDataYoungerThanTTL ==
    GetMetricsReturned
        => \A at \in ReadInstants(lastStep.done.metrics) : (dateNow - at) < CacheTTL

====
